---- MODULE Spec2Model ----
(***************************************************************************)
(* Model of serial_monitor.py: the checksum engine (CRCCalculator), the    *)
(* two frame synchronizers (DataParser, GenericProtocolParser), the        *)
(* protocol registry and dispatcher (SerialMonitorApp.on_data_received,    *)
(* init_protocol_parsers, the protocol manager) and the connection         *)
(* recovery state machine (on_connection_lost .. stop_recovery_check).     *)
(*                                                                         *)
(* Bytes are the integers 0..255, byte strings are sequences of bytes.     *)
(* Times are integers in milliseconds; None is modelled by -1.             *)
(***************************************************************************)
EXTENDS Integers, Sequences, FiniteSets, TLC

None == -1

\* Python's None in the fields that hold an object or a name
Null == "None"

(***************************************************************************)
(* Python slicing and searching on byte strings.                           *)
(***************************************************************************)
Max(a, b) == IF a >= b THEN a ELSE b

Min(a, b) == IF a <= b THEN a ELSE b

\* s[k:] for k >= 0
Drop(s, k) == SubSeq(s, Min(k, Len(s)) + 1, Len(s))

\* s[:k] for k >= 0
Take(s, k) == SubSeq(s, 1, Min(k, Len(s)))

\* s[-k:] written with a negated count: -0 is 0, so s[-0:] is the whole of s
NegSlice(s, k) == IF k = 0 \/ k >= Len(s) THEN s ELSE SubSeq(s, Len(s) - k + 1, Len(s))

\* s[i:] for any integer i, negative i counting from the end
SliceFrom(s, i) == IF i >= 0 THEN Drop(s, i) ELSE NegSlice(s, -i)

\* h occurs in s at 0-based index i
OccursAt(s, h, i) == /\ i >= 0
                     /\ i + Len(h) <= Len(s)
                     /\ \A j \in 1..Len(h) : s[i + j] = h[j]

\* bytes.find: the lowest index of an occurrence of h in s, -1 when there is none
Find(s, h) ==
    IF OccursAt(s, h, 0) THEN 0
    ELSE LET hits == {i \in 1..(Len(s) - Len(h)) : OccursAt(s, h, i)}
         IN  IF hits = {} THEN -1 ELSE CHOOSE i \in hits : \A j \in hits : i <= j

(***************************************************************************)
(* Bit operations on non-negative integers.                                *)
(***************************************************************************)
RECURSIVE Xor(_, _)
Xor(a, b) == IF a = 0 THEN b
             ELSE IF b = 0 THEN a
             ELSE (((a % 2) + (b % 2)) % 2) + 2 * Xor(a \div 2, b \div 2)

\* the one element of a one-element set
Only(S) == CHOOSE x \in S : TRUE

\* one round of the MSB-first CRC16 loop body (polynomial 0x1021 = 4129), on
\* the value of the register
ShiftMsb(crc) ==
    Only({ IF (c \div 32768) % 2 = 1
             THEN Xor((c * 2) % 65536, 4129) % 65536
             ELSE (c * 2) % 65536 : c \in {crc} })

\* one round of the LSB-first CRC16 loop body (polynomial 0xA001 = 40961)
ShiftLsb(crc) ==
    Only({ IF c % 2 = 1 THEN Xor(c \div 2, 40961) ELSE c \div 2 : c \in {crc} })

\* the inner loop "for _ in range(8)" of the MSB-first and LSB-first CRC16
Rounds8Msb(crc) ==
    ShiftMsb(ShiftMsb(ShiftMsb(ShiftMsb(ShiftMsb(ShiftMsb(ShiftMsb(ShiftMsb(crc))))))))

Rounds8Lsb(crc) ==
    ShiftLsb(ShiftLsb(ShiftLsb(ShiftLsb(ShiftLsb(ShiftLsb(ShiftLsb(ShiftLsb(crc))))))))

(***************************************************************************)
(* CRCCalculator                                                           *)
(***************************************************************************)
\* "for byte in data" from byte i on, crc being the register (a non-negative
\* integer) before byte i
RECURSIVE Crc16Msb(_, _, _)
Crc16Msb(data, i, crc) ==
    IF crc >= 0 /\ i <= Len(data)
    THEN Crc16Msb(data, i + 1, Rounds8Msb(Xor(crc, data[i] * 256)))
    ELSE crc

RECURSIVE Crc16Lsb(_, _, _)
Crc16Lsb(data, i, crc) ==
    IF crc >= 0 /\ i <= Len(data)
    THEN Crc16Lsb(data, i + 1, Rounds8Lsb(Xor(crc, data[i])))
    ELSE crc

calculate_ccitt_crc16(data) == Crc16Msb(data, 1, 65535)

calculate_modbus_crc16(data) == Crc16Lsb(data, 1, 65535)

\* the XMODEM checksum started from FFFF
calculate_crc16_xmodem_ffff(data) == Crc16Msb(data, 1, 65535)

calculate_crc16_xmodem(data) == Crc16Msb(data, 1, 0)

RECURSIVE SumBytes(_, _)
SumBytes(data, i) == IF i > Len(data) THEN 0 ELSE data[i] + SumBytes(data, i + 1)

calculate_sum_check(data) == SumBytes(data, 1) % 256

RECURSIVE XorBytes(_, _)
XorBytes(data, n) == IF n = 0 THEN 0 ELSE Xor(XorBytes(data, n - 1), data[n])

calculate_xor_check(data) == XorBytes(data, Len(data))

(***************************************************************************)
(* Protocol definitions.  A definition is the dictionary the protocol      *)
(* dialog produces: name, header, length, tail, crc_type, enabled.  The    *)
(* checksum kinds of the dialog's combo box are named here                 *)
(*   "none" (无), "CRC16-XMODEM", "CRC16-CCITT", "CRC16-MODBUS",           *)
(*   "sum" (累加和), "xor" (异或).                                         *)
(***************************************************************************)
CrcKinds == {"none", "CRC16-XMODEM", "CRC16-CCITT", "CRC16-MODBUS", "sum", "xor"}

Crc16Kinds == {"CRC16-XMODEM", "CRC16-CCITT", "CRC16-MODBUS"}

Crc8Kinds == {"sum", "xor"}

\* the range of the dialog's spin_length
SPIN_LENGTH_MIN == 1

SPIN_LENGTH_MAX == 1024

ProtocolConfig(name, header, length, tail, crc_type, enabled) ==
    [name |-> name, header |-> header, length |-> length, tail |-> tail,
     crc_type |-> crc_type, enabled |-> enabled]

(***************************************************************************)
(* DataParser: the built-in 38-byte protocol.                              *)
(***************************************************************************)
FRAME_LENGTH == 38

FRAME_HEADER == <<168, 168>>

FRAME_TAIL == <<170, 170>>

\* DataParser.add_data
DataParser_add_data(buffer, data) == buffer \o data

\* The state of a parse() call in progress: the buffer, the results so far, and
\* off, the number of bytes the call has removed from the front of the buffer
\* (it locates each result in the buffer the call started with).
ParseState(buffer, results, off) == [buffer |-> buffer, results |-> results, off |-> off]

\* One result of DataParser.parse: the raw frame (the three decoded fields are
\* functions of raw_frame), where it started, and the number of bytes the
\* buffer lost when it was emitted.
DataResult(frame, off, removed) ==
    [protocol_name |-> "default", raw_frame |-> frame, start |-> off, removed |-> removed]

\* self.buffer.clear() as it would be if it kept the last byte of the buffer
buffer_keep_last(buffer) == NegSlice(buffer, 1)

\* self.buffer.clear() when no header is found
buffer_clear(buffer) == <<>>

\* The outcome of one pass through a while loop body: the state it leaves and
\* whether the loop goes on (continue, or the end of the body) or stops (break)
Continue(st) == [st |-> st, stop |-> FALSE]

Break(st) == [st |-> st, stop |-> TRUE]

\* removing an emitted frame as it would be if only one byte were removed
remove_frame_byte(buffer, length) == Drop(buffer, 1)

\* self.buffer = self.buffer[self.FRAME_LENGTH:] after an emission
remove_frame(buffer, length) == Drop(buffer, length)

\* DataParser.parse, the body of the while loop, entered with
\* len(self.buffer) >= FRAME_LENGTH
DataParser_body(st) ==
    LET header_index == Find(st.buffer, FRAME_HEADER) IN
    IF header_index = -1
    THEN Break(ParseState(buffer_clear(st.buffer), st.results, st.off + Len(st.buffer)))
    ELSE
      LET buffer == Drop(st.buffer, header_index)
          off    == st.off + header_index
      IN
      IF Len(buffer) < FRAME_LENGTH
      THEN Break(ParseState(buffer, st.results, off))
      ELSE
        LET frame == Take(buffer, FRAME_LENGTH) IN
        IF SubSeq(frame, 37, 38) # FRAME_TAIL
        THEN Continue(ParseState(Drop(buffer, 2), st.results, off + 2))
        ELSE LET rest == remove_frame(buffer, FRAME_LENGTH)
             IN  Continue(ParseState(rest,
                                     Append(st.results,
                                            DataResult(frame, off, Len(buffer) - Len(rest))),
                                     off + (Len(buffer) - Len(rest))))

\* DataParser.parse, the while loop; st is the state at the loop test
RECURSIVE DataParser_loop(_)
DataParser_loop(st) ==
    IF Len(st.buffer) < FRAME_LENGTH THEN st
    ELSE LET pass == DataParser_body(st)
         IN  IF pass.stop THEN pass.st ELSE DataParser_loop(pass.st)

\* DataParser.parse
DataParser_parse(buffer) == DataParser_loop(ParseState(buffer, <<>>, 0))

(***************************************************************************)
(* GenericProtocolParser                                                   *)
(***************************************************************************)
BUFFER_LIMIT == 10240

BUFFER_KEEP == 5120

\* GenericProtocolParser.__init__: the parser of a definition, buffer empty.
\* pos is the position in the received stream of each byte of buffer.
GenericProtocolParser(config) ==
    [name |-> config.name, header |-> config.header, tail |-> config.tail,
     length |-> config.length, crc_type |-> config.crc_type,
     enabled |-> config.enabled, buffer |-> <<>>, pos |-> <<>>]

\* the definition a parser was built from
config_of(p) == ProtocolConfig(p.name, p.header, p.length, p.tail, p.crc_type, p.enabled)

\* add_data as it would be if it overwrote the buffer instead of extending it
add_data_overwrite(buffer, data) == data

\* add_data as it would be without the size limit
add_data_unlimited(buffer, data) == buffer \o data

\* GenericProtocolParser.add_data
add_data(buffer, data) ==
    LET extended == buffer \o data
    IN  IF Len(extended) > BUFFER_LIMIT THEN NegSlice(extended, BUFFER_KEEP) ELSE extended

\* struct.unpack('<H', b)[0] and struct.unpack('>H', b)[0] on a 2-byte string
UnpackLE16(b) == b[1] + 256 * b[2]

UnpackBE16_swapped(b) == b[1] + 256 * b[2]

UnpackBE16(b) == 256 * b[1] + b[2]

\* _verify_crc as it would be if it accepted every frame
verify_crc_accept_all(p, frame) == TRUE

\* GenericProtocolParser._verify_crc
verify_crc(p, frame) ==
    IF p.crc_type = "none" THEN TRUE
    ELSE IF p.crc_type \in Crc16Kinds THEN
        IF Len(frame) < 3 THEN FALSE
        ELSE
          LET data == Take(frame, Len(frame) - 2)
              last2 == NegSlice(frame, 2)
          IN  IF p.crc_type = "CRC16-MODBUS"
                THEN UnpackLE16(last2) = calculate_modbus_crc16(data)
              ELSE IF p.crc_type = "CRC16-XMODEM"
                THEN UnpackLE16(last2) = calculate_crc16_xmodem(data)
              ELSE UnpackBE16(last2) = calculate_ccitt_crc16(data)
    ELSE IF p.crc_type \in Crc8Kinds THEN
        IF Len(frame) < 2 THEN FALSE
        ELSE
          LET data == Take(frame, Len(frame) - 1)
              check_received == frame[Len(frame)]
          IN  IF p.crc_type = "sum"
                THEN check_received = calculate_sum_check(data)
              ELSE check_received = calculate_xor_check(data)
    ELSE TRUE

\* skip_len as it would be without the floor of one byte
skip_len_header(p) == Len(p.header)

\* skip_len = max(1, len(self.header))
skip_len(p) == Max(1, Len(p.header))

\* the buffer kept when no header is found
header_miss_keep(p, buffer) ==
    IF Len(buffer) > Len(p.header) THEN NegSlice(buffer, Len(p.header) - 1) ELSE buffer

\* the tail test of a candidate frame: frame[tail_start:] != self.tail
tail_mismatch(p, frame) ==
    Len(p.tail) > 0 /\ SliceFrom(frame, p.length - Len(p.tail)) # p.tail

\* One result of GenericProtocolParser.parse (frame_hex is a rendering of raw_frame)
GenericResult(p, frame, off, removed) ==
    [protocol_name |-> p.name, raw_frame |-> frame, start |-> off, removed |-> removed]

\* GenericProtocolParser.parse, the body of the while loop, entered with
\* len(self.buffer) >= self.length
GenericParser_body(p, st) ==
    LET header_index == IF Len(p.header) > 0 THEN Find(st.buffer, p.header) ELSE 0 IN
    IF header_index = -1
    THEN LET kept == header_miss_keep(p, st.buffer)
         IN  Break(ParseState(kept, st.results, st.off + (Len(st.buffer) - Len(kept))))
    ELSE
      LET buffer == Drop(st.buffer, header_index)
          off    == st.off + header_index
      IN
      IF Len(buffer) < p.length
      THEN Break(ParseState(buffer, st.results, off))
      ELSE
        LET frame == Take(buffer, p.length) IN
        IF tail_mismatch(p, frame) \/ ~verify_crc(p, frame)
        THEN Continue(ParseState(Drop(buffer, skip_len(p)), st.results,
                                 off + Min(skip_len(p), Len(buffer))))
        ELSE LET rest == remove_frame(buffer, p.length)
             IN  Continue(ParseState(rest,
                                     Append(st.results,
                                            GenericResult(p, frame, off,
                                                          Len(buffer) - Len(rest))),
                                     off + (Len(buffer) - Len(rest))))

\* GenericProtocolParser.parse, the while loop; st is the state at the loop test
RECURSIVE GenericParser_loop(_, _)
GenericParser_loop(p, st) ==
    IF Len(st.buffer) < p.length THEN st
    ELSE LET pass == GenericParser_body(p, st)
         IN  IF pass.stop THEN pass.st ELSE GenericParser_loop(p, pass.st)

\* GenericProtocolParser.parse
parse(p, buffer) ==
    IF ~p.enabled THEN ParseState(buffer, <<>>, 0)
    ELSE GenericParser_loop(p, ParseState(buffer, <<>>, 0))

(***************************************************************************)
(* Field extraction: PlotCanvas.parse_value_from_frame and                 *)
(* SerialMonitorApp.parse_custom_display_data.                             *)
(***************************************************************************)
\* the data types of the curve dialog
CurveTypes ==
    {"uint8", "int8", "uint16 (LE)", "uint16 (BE)", "int16 (LE)", "int16 (BE)",
     "uint32 (LE)", "uint32 (BE)", "int32 (LE)", "int32 (BE)",
     "float (LE)", "float (BE)", "double (LE)", "double (BE)"}

\* the data types parse_data_bytes decodes
DisplayTypes == (CurveTypes \ {"double (LE)", "double (BE)"}) \cup {"string (ASCII)"}

\* the number of bytes the struct format of a data type reads
type_size(dtype) ==
    IF dtype \in {"uint8", "int8", "string (ASCII)"} THEN 1
    ELSE IF dtype \in {"uint16 (LE)", "uint16 (BE)", "int16 (LE)", "int16 (BE)"} THEN 2
    ELSE IF dtype \in {"double (LE)", "double (BE)"} THEN 8
    ELSE 4

\* the struct formats that read the most significant byte first
BigEndianFormats == {">H", ">h", ">I", ">i", ">f", ">d"}

\* the bytes of b as they are
LittleEndian_asis(fmt, b) == b

\* the bytes of b in little-endian order
LittleEndian(fmt, b) ==
    IF fmt \in BigEndianFormats
    THEN [i \in 1..Len(b) |-> b[Len(b) + 1 - i]]
    ELSE b

\* two's complement of an unsigned value of the given number of bits
Signed(v, bits) == IF v >= 2 ^ (bits - 1) THEN v - 2 ^ bits ELSE v

\* struct.unpack(fmt, b)[0] ("B" stands for data_bytes[0]). An unsigned 32-bit
\* value is kept as its two 16-bit halves, a float or double as its bytes.
struct_unpack(fmt, b) ==
    LET le == LittleEndian(fmt, b)
    IN  IF fmt = "B" THEN le[1]
        ELSE IF fmt = "b" THEN Signed(le[1], 8)
        ELSE IF fmt \in {"<H", ">H"} THEN UnpackLE16(le)
        ELSE IF fmt \in {"<h", ">h"} THEN Signed(UnpackLE16(le), 16)
        ELSE IF fmt \in {"<I", ">I"}
          THEN [hi |-> UnpackLE16(SubSeq(le, 3, 4)), lo |-> UnpackLE16(SubSeq(le, 1, 2))]
        ELSE IF fmt \in {"<i", ">i"}
          THEN Signed(UnpackLE16(SubSeq(le, 3, 4)), 16) * 65536
                  + UnpackLE16(SubSeq(le, 1, 2))
        ELSE [bits |-> le]

\* the format of each branch of parse_value_from_frame
curve_format(dtype) ==
    CASE dtype = "uint8" -> "B"
      [] dtype = "int8" -> "b"
      [] dtype = "uint16 (LE)" -> "<H"
      [] dtype = "uint16 (BE)" -> ">H"
      [] dtype = "int16 (LE)" -> "<h"
      [] dtype = "int16 (BE)" -> ">h"
      [] dtype = "uint32 (LE)" -> "<I"
      [] dtype = "uint32 (BE)" -> ">I"
      [] dtype = "int32 (LE)" -> "<i"
      [] dtype = "int32 (BE)" -> ">i"
      [] dtype = "float (LE)" -> "<f"
      [] dtype = "float (BE)" -> ">f"
      [] dtype = "double (LE)" -> "<d"
      [] dtype = "double (BE)" -> ">d"

\* the format of each branch of parse_data_bytes
display_format(data_type) ==
    CASE data_type = "uint8" -> "B"
      [] data_type = "int8" -> "b"
      [] data_type = "uint16 (LE)" -> "<H"
      [] data_type = "uint16 (BE)" -> ">H"
      [] data_type = "int16 (LE)" -> "<h"
      [] data_type = "int16 (BE)" -> ">h"
      [] data_type = "uint32 (LE)" -> "<I"
      [] data_type = "uint32 (BE)" -> ">I"
      [] data_type = "int32 (LE)" -> "<i"
      [] data_type = "int32 (BE)" -> ">i"
      [] data_type = "float (LE)" -> "<f"
      [] data_type = "float (BE)" -> ">f"

\* the value parse_value_from_frame reads from the first type_size bytes
unpack(dtype, data_bytes) ==
    struct_unpack(curve_format(dtype), SubSeq(data_bytes, 1, type_size(dtype)))

\* (value * coefficient / divisor) + offset, left unevaluated
Scaled(value, config) ==
    [raw |-> value, scale |-> <<config.coefficient, config.divisor, config.offset>>]

\* the bounds check that passes everything
out_of_bounds_never(start, count, frame) == FALSE

\* if start + count > len(frame)
out_of_bounds(start, count, frame) == start + count > Len(frame)

\* the bit counted from the most significant end
bit_value_msb(target_byte, bit_index) == (target_byte \div (2 ^ (7 - bit_index))) % 2

\* (target_byte >> bit_index) & 0x01
bit_value(target_byte, bit_index) == (target_byte \div (2 ^ bit_index)) % 2

\* parse_value_from_frame: <<>> for None, else the value in a 1-tuple. The
\* exceptions of the body (struct.error, IndexError, ZeroDivisionError) are
\* caught and give None.
parse_value_from_frame(frame, config) ==
    LET start == config.start_byte
        count == config.byte_count
        dtype == config.data_type
        data_bytes == Take(Drop(frame, start), count)
    IN  IF out_of_bounds(start, count, frame) THEN <<>>
        ELSE IF config.bit_mode
          THEN IF start >= Len(frame) THEN <<>>
               ELSE <<[raw |-> bit_value(frame[start + 1], config.bit_index),
                       scale |-> <<>>]>>
        ELSE IF dtype \notin CurveTypes THEN <<>>
        ELSE IF Len(data_bytes) < type_size(dtype) THEN <<>>
        ELSE IF config.divisor = 0 THEN <<>>
        ELSE <<Scaled(unpack(dtype, data_bytes), config)>>

\* parse_data_bytes
parse_data_bytes(data_bytes, data_type) ==
    IF data_type = "string (ASCII)" THEN [text |-> data_bytes]
    ELSE IF data_type \in DisplayTypes
      THEN struct_unpack(display_format(data_type),
                         SubSeq(data_bytes, 1, type_size(data_type)))
    ELSE 0

\* parse_custom_display_data for one enabled display of the frame's protocol:
\* <<>> when the display is left alone, else the value it is updated with
parse_custom_display_data(data, config) ==
    LET start_byte == config.start_byte
        byte_count == config.byte_count
        data_type == config.data_type
        data_bytes == Take(Drop(data, start_byte), byte_count)
    IN  IF Len(data) < start_byte + byte_count THEN <<>>
        ELSE IF data_type \in DisplayTypes /\ Len(data_bytes) < type_size(data_type)
               /\ data_type # "string (ASCII)"
          THEN <<>>
        ELSE IF data_type = "string (ASCII)"
          THEN <<parse_data_bytes(data_bytes, data_type)>>
        ELSE IF config.divisor = 0 THEN <<>>
        ELSE <<Scaled(parse_data_bytes(data_bytes, data_type), config)>>

(***************************************************************************)
(* SerialMonitorApp: the state of the application object.                  *)
(***************************************************************************)
VARIABLES
    protocol_configs,   \* self.protocol_configs: the registry's definitions, in list order
    protocol_parsers,   \* self.protocol_parsers: one GenericProtocolParser per enabled definition
    parser_buffer,      \* self.parser.buffer: the buffer of the default DataParser
    parser_pos,         \* stream position of each byte of parser_buffer
    rx_buffer,          \* self.rx_buffer: the display accumulation buffer
    last_rx_time,       \* self.last_rx_time, None when unset
    frame_interval_ms,  \* self.frame_interval_ms
    display,            \* the RX units handed to add_data_to_display, in order
    clock,              \* the last value read from datetime.now(), in ms
    wire,               \* the bytes the device has still to send
    rx_count,           \* number of bytes received so far (total length of raw_data_buffer)
    rx_calls,           \* number of on_data_received calls so far
    emitted,            \* every frame handed downstream so far, in order
    last_rx,            \* what the last on_data_received call did
    sent,               \* the frames the device put on the wire, in order
    serial_port,        \* self.serial_port: Null, or the name of the open port
    lost_signal,        \* a connection_lost signal of the reader thread is queued
    lost_port_info,     \* self.lost_port_info: Null, or the port name of the lost port
    recovery_check_timer, \* self.recovery_check_timer: Null, or TIMER_ACTIVE
    recovery_start_time,  \* self.recovery_start_time, None when unset
    port_stable_time,   \* self.port_stable_time, None when unset
    last_port_state,    \* self.last_port_state
    btn_connect,        \* the text of self.btn_connect
    probe,              \* what the last check_port_recovery call did
    seen,               \* the probe ticks' view of the device, as observed so far
    serial_thread,      \* self.serial_thread: Null, or the port its reader reads
    plot_timer,         \* self.plot_timer.isActive()
    preset_commands,    \* self.preset_commands: the configured presets, in list order
    preset_timers,      \* the interval of each self.preset_timers[i] in ms, None when stopped
    lost_port_config,   \* self.lost_port_config: <<>> when None, else <<preset_states>>
    lost_port_baudrate, \* self.lost_port_info['baudrate'], None without a snapshot
    combo_port,         \* the text of self.combo_port
    combo_baudrate,     \* the value of self.combo_baudrate
    port_baudrate,      \* self.serial_port.baudrate, None without a port
    open_ports,         \* the ports this process holds open (Serial objects not closed)
    readers,            \* the ports a running SerialThread reads
    reconnected_at,     \* rx_count when recover_connection last opened the port, 0 before
    attempts,           \* recover_connection calls since the recovery was started
    window,             \* WINDOW_OPEN until closeEvent is accepted
    last_extract,       \* what the last field extraction did
    is_curve_recording, \* self.is_curve_recording
    curve_configs,      \* self.plot_canvas.curve_configs
    curve_data,         \* self.plot_canvas.curve_data: the values of each curve, in order
    custom_displays,    \* self.custom_displays: <<>> for None, else <<config>>
    custom_display_labels, \* the value each display label shows, <<>> for "--"
    last_crc,           \* what the last use of CRCCalculator computed
    last_tx,            \* what the last transmitting handler wrote
    parse_run,          \* a parse() call followed iteration by iteration
    last_append         \* what the last add_crc_to_data call returned

syncVars == <<protocol_configs, protocol_parsers, parser_buffer, parser_pos,
              rx_count, rx_calls, emitted, last_rx>>

grouperVars == <<rx_buffer, last_rx_time, frame_interval_ms, display>>

recoveryVars == <<serial_port, lost_signal, lost_port_info, recovery_check_timer,
                  recovery_start_time, port_stable_time, last_port_state, btn_connect,
                  probe, seen>>

presetVars == <<preset_commands, preset_timers>>

comboVars == <<combo_port, combo_baudrate>>

sessionVars == <<serial_thread, plot_timer, presetVars, comboVars, port_baudrate,
                 open_ports, readers, reconnected_at, attempts, window>>

lifecycleVars == <<sessionVars, lost_port_config, lost_port_baudrate>>

consumerVars == <<is_curve_recording, curve_configs, curve_data, custom_displays,
                  custom_display_labels>>

auxVars == <<last_crc, last_tx, parse_run, last_append>>

vars == <<syncVars, grouperVars, clock, wire, sent, recoveryVars, lifecycleVars,
          last_extract, consumerVars, auxVars>>

\* the last n elements of s (n <= Len(s))
Suffix(s, n) == SubSeq(s, Len(s) - n + 1, Len(s))

\* Stream positions of the bytes of a chunk received when count bytes had arrived
ChunkPos(count, data) == [i \in 1..Len(data) |-> count + i - 1]

\* A frame handed downstream: src is 0 for the default path and the index of the
\* parser in protocol_parsers for the generic path; pos are the stream positions
\* of the frame's bytes.
Emission(src, result, pos) ==
    [src |-> src, name |-> result.protocol_name, frame |-> result.raw_frame,
     pos |-> SubSeq(pos, result.start + 1, result.start + Len(result.raw_frame)),
     removed |-> result.removed]

Emissions(src, results, pos) ==
    [k \in 1..Len(results) |-> Emission(src, results[k], pos)]

\* use_default_parser: no enabled definition has the default protocol's header
default_header == <<168, 168>>

\* use_default_parser as it would be if disabled definitions counted
use_default_parser_any(configs) ==
    ~\E i \in DOMAIN configs : configs[i].header = default_header

use_default_parser(configs) ==
    ~\E i \in DOMAIN configs :
        configs[i].enabled /\ configs[i].header = default_header

\* The feed of one generic parser within on_data_received: add_data, then parse.
\* added is the buffer between the two calls.
FeedParser(p, data, count) ==
    LET added  == add_data(p.buffer, data)
        apos   == Suffix(p.pos \o ChunkPos(count, data), Len(added))
        st     == parse(p, added)
    IN  [parser  |-> [p EXCEPT !.buffer = st.buffer, !.pos = Suffix(apos, Len(st.buffer))],
         added   |-> added,
         results |-> Emissions(0, st.results, apos)]

RECURSIVE ConcatAll(_, _)
ConcatAll(seqs, i) == IF i > Len(seqs) THEN <<>> ELSE seqs[i] \o ConcatAll(seqs, i + 1)

\* is_new_frame with a gap that must exceed the threshold
is_new_frame_strict(now) ==
    \/ last_rx_time = None
    \/ now - last_rx_time > frame_interval_ms

\* The RX display grouping at the head of on_data_received
is_new_frame(now) ==
    \/ last_rx_time = None
    \/ now - last_rx_time >= frame_interval_ms

GroupRx(data, now) ==
    /\ IF is_new_frame(now)
         THEN /\ display' = IF Len(rx_buffer) > 0 THEN Append(display, rx_buffer) ELSE display
              /\ rx_buffer' = data
         ELSE /\ display' = display
              /\ rx_buffer' = rx_buffer \o data
    /\ last_rx_time' = now
    /\ UNCHANGED frame_interval_ms

\* float(v) of a value that was not scaled; the placeholder 0.0 is Float(0)
Float(v) == [raw |-> v, scale |-> <<>>]

\* CurveConfigDialog.get_data: the field descriptor of a curve and the protocol
\* it reads (Null for the default protocol); bit mode forces a byte count of 1
CurveConfig(protocol, start, count, dtype, bit_mode, bit_index, scale) ==
    [protocol |-> protocol, start_byte |-> start,
     byte_count |-> IF bit_mode THEN 1 ELSE count, data_type |-> dtype,
     bit_mode |-> bit_mode, bit_index |-> bit_index,
     coefficient |-> scale[1], divisor |-> scale[2], offset |-> scale[3]]

\* CustomDisplayDialog.get_data
DisplayConfig(protocol, start, count, dtype, scale, enabled) ==
    [protocol |-> protocol, start_byte |-> start, byte_count |-> count,
     data_type |-> dtype, coefficient |-> scale[1], divisor |-> scale[2],
     offset |-> scale[3], enabled |-> enabled]

\* PlotCanvas.init_default_curves
default_curves ==
    <<CurveConfig(Null, 2, 2, "uint16 (LE)", FALSE, 0, <<10000, 10000, 0>>),
      CurveConfig(Null, 4, 4, "uint32 (LE)", FALSE, 0, <<10000, 6000000, 0>>),
      CurveConfig(Null, 8, 2, "int16 (LE)", FALSE, 0, <<10000, 100000, 0>>)>>

\* the display windows of the model (self.custom_displays has 50 slots)
DisplaySlots == 2

\* PlotCanvas.clear_data / set_curve_configs: an empty list per curve
cleared(configs) == [i \in DOMAIN configs |-> <<>>]

\* the protocol_name the consumers are given with an emitted frame: None for a
\* frame of the default parser
protocol_name_of(e) == IF e.src = 0 THEN Null ELSE e.name

\* the value appended for a frame of another protocol: the curve's last value,
\* 0.0 for an empty curve
placeholder_last(points) ==
    IF points # <<>> THEN points[Len(points)] ELSE Float(0)

\* the value appended when the extraction fails: 0.0
placeholder(points) == Float(0)

\* PlotCanvas.add_data, the loop over the curves: a value per curve and frame.
\* (The cap of 50000 points and the two-hour auto save lie beyond the streams
\* of the model.)
PlotCanvas_add_data(configs, data, frame, protocol_name) ==
    [i \in DOMAIN data |->
        IF i > Len(configs) THEN data[i]
        ELSE IF configs[i].protocol = protocol_name
          THEN LET value == parse_value_from_frame(frame, configs[i])
               IN  Append(data[i], IF value # <<>> THEN value[1]
                                   ELSE placeholder(data[i]))
          ELSE Append(data[i], placeholder_last(data[i]))]

\* parse_custom_display_data, the loop over the display windows
custom_displays_after(displays, labels, data, protocol_name) ==
    [i \in DOMAIN labels |->
        IF displays[i] = <<>> THEN labels[i]
        ELSE IF ~displays[i][1].enabled THEN labels[i]
        ELSE IF displays[i][1].protocol # protocol_name THEN labels[i]
        ELSE LET value == parse_custom_display_data(data, displays[i][1])
             IN  IF value = <<>> THEN labels[i] ELSE value]

\* on_data_received, the body of "for result in results": the curves while
\* recording, then the display windows
RECURSIVE ConsumeResults(_, _, _, _)
ConsumeResults(data, labels, results, k) ==
    IF k > Len(results) THEN [curve_data |-> data, labels |-> labels]
    ELSE LET frame == results[k].frame
             protocol_name == protocol_name_of(results[k])
         IN  ConsumeResults(
                IF is_curve_recording
                  THEN PlotCanvas_add_data(curve_configs, data, frame, protocol_name)
                  ELSE data,
                custom_displays_after(custom_displays, labels, frame, protocol_name),
                results, k + 1)

\* the parsers fed from the RX display buffer instead of the chunk
parser_input_grouped(data) == rx_buffer \o data

\* self.parser.add_data(data), parser.add_data(data): what on_data_received
\* hands to the parsers is the chunk it was called with
parser_input(data) == data

\* The dispatch part of on_data_received: the default parser unless a header
\* conflict disables it, then every generic parser.
Dispatch(data) ==
    LET use_default == use_default_parser(protocol_configs)
        input  == parser_input(data)
        dadded == DataParser_add_data(parser_buffer, input)
        dpos   == parser_pos \o ChunkPos(rx_count, input)
        dst    == DataParser_parse(dadded)
        fed    == [i \in DOMAIN protocol_parsers |->
                      FeedParser(protocol_parsers[i], input, rx_count)]
        custom == [i \in DOMAIN protocol_parsers |->
                      [k \in 1..Len(fed[i].results) |->
                          [fed[i].results[k] EXCEPT !.src = i]]]
        default_results == IF use_default THEN Emissions(0, dst.results, dpos) ELSE <<>>
        consumed == ConsumeResults(curve_data, custom_display_labels,
                                   default_results \o ConcatAll(custom, 1), 1)
    IN  /\ parser_buffer' = IF use_default THEN dst.buffer ELSE parser_buffer
        /\ parser_pos' = IF use_default THEN Suffix(dpos, Len(dst.buffer)) ELSE parser_pos
        /\ protocol_parsers' = [i \in DOMAIN protocol_parsers |-> fed[i].parser]
        /\ emitted' = emitted \o default_results \o ConcatAll(custom, 1)
        /\ last_rx' = [use_default |-> use_default,
                       default_results |-> default_results,
                       added |-> [i \in DOMAIN protocol_parsers |-> fed[i].added],
                       protocols |-> [i \in DOMAIN protocol_parsers |->
                                         config_of(protocol_parsers[i])],
                       custom_results |-> custom]
        /\ rx_count' = rx_count + Len(data)
        /\ rx_calls' = rx_calls + 1
        /\ curve_data' = consumed.curve_data
        /\ custom_display_labels' = consumed.labels
        /\ UNCHANGED <<protocol_configs, is_curve_recording, curve_configs,
                       custom_displays>>

\* SerialMonitorApp.on_data_received(data), run when datetime.now() reads now
on_data_received(data, now) ==
    /\ Len(data) > 0
    /\ now >= clock
    /\ clock' = now
    /\ GroupRx(data, now)
    /\ Dispatch(data)

\* init_protocol_parsers as it would be without the test of the enabled flag
init_protocol_parsers_all(configs) ==
    [i \in DOMAIN configs |-> GenericProtocolParser(configs[i])]

\* SerialMonitorApp.init_protocol_parsers: a fresh parser per enabled definition
RECURSIVE init_protocol_parsers(_)
init_protocol_parsers(configs) ==
    IF configs = <<>> THEN <<>>
    ELSE (IF Head(configs).enabled THEN <<GenericProtocolParser(Head(configs))>> ELSE <<>>)
         \o init_protocol_parsers(Tail(configs))

FRAME_INTERVAL_DEFAULT == 100

POLL_MS == 10

NoRx == [use_default |-> TRUE, default_results |-> <<>>, added |-> <<>>,
         protocols |-> <<>>, custom_results |-> <<>>]

\* the port selected in combo_port
COM_PORT == "COM3"

\* the texts of btn_connect: open the port, close the port, detecting
BTN_OPEN == "open"

BTN_CLOSE == "close"

BTN_DETECTING == "detecting"

TIMER_ACTIVE == "active"

\* no check_port_recovery call yet
NoProbe == [time |-> None, observed |-> FALSE, port_exists |-> FALSE,
            recovered |-> FALSE, since |-> None, flapped |-> FALSE,
            timed_out |-> FALSE]

\* the device has not been observed in the current recovery
NotSeen == [since |-> None, flapped |-> FALSE]

\* the serial ports comports() can list
Ports == {COM_PORT, "COM4"}

\* combo_baudrate.setCurrentText('115200')
BAUD_DEFAULT == 115200

\* the baud rates chosen in the scenarios
Baudrates == {9600, BAUD_DEFAULT}

WINDOW_OPEN == "open"

WINDOW_CLOSED == "closed"

\* a preset as PresetDialog.get_data returns it; period is in thousandths of a
\* second (spin_period has three decimals)
Preset(periodic, period) == [periodic |-> periodic, period |-> period]

\* the presets of the saved configuration
InitialPresets == <<Preset(TRUE, 500), Preset(FALSE, 1000)>>

\* round(preset['period'] * 1000): period holds a whole number of thousandths
interval_ms(preset) == preset.period

\* open_serial, the timers after the configured periodic senders are started
start_periodic(timers, presets) ==
    [i \in DOMAIN timers |->
        IF i <= Len(presets) /\ presets[i].periodic /\ presets[i].period > 0
        THEN interval_ms(presets[i])
        ELSE timers[i]]

\* no field extraction yet
NoExtract == [called |-> FALSE]

\* The application after construction with the definitions configs loaded from
\* the saved configuration (__init__, load_config), the port open, and the
\* device about to send the bytes w.
AppInit(configs, w, frames) ==
    /\ protocol_configs = configs
    /\ protocol_parsers = init_protocol_parsers(configs)
    /\ parser_buffer = <<>>
    /\ parser_pos = <<>>
    /\ rx_buffer = <<>>
    /\ last_rx_time = None
    /\ frame_interval_ms = FRAME_INTERVAL_DEFAULT
    /\ display = <<>>
    /\ clock = 0
    /\ wire = w
    /\ rx_count = 0
    /\ rx_calls = 0
    /\ emitted = <<>>
    /\ last_rx = NoRx
    /\ sent = frames
    /\ serial_port = COM_PORT
    /\ lost_signal = FALSE
    /\ lost_port_info = Null
    /\ recovery_check_timer = Null
    /\ recovery_start_time = None
    /\ port_stable_time = None
    /\ last_port_state = FALSE
    /\ btn_connect = BTN_CLOSE
    /\ probe = NoProbe
    /\ seen = NotSeen
    /\ serial_thread = COM_PORT
    /\ plot_timer = TRUE
    /\ preset_commands = InitialPresets
    /\ preset_timers = start_periodic(<<None, None>>, InitialPresets)
    /\ lost_port_config = <<>>
    /\ lost_port_baudrate = None
    /\ combo_port = COM_PORT
    /\ combo_baudrate = BAUD_DEFAULT
    /\ port_baudrate = BAUD_DEFAULT
    /\ open_ports = {COM_PORT}
    /\ readers = {COM_PORT}
    /\ reconnected_at = 0
    /\ attempts = 0
    /\ window = WINDOW_OPEN
    /\ last_extract = NoExtract
    /\ last_crc = [called |-> FALSE]
    /\ last_tx = [called |-> FALSE]
    /\ parse_run = [called |-> FALSE, iterations |-> 0, returned |-> FALSE]
    /\ last_append = [called |-> FALSE]
    /\ is_curve_recording = FALSE
    /\ curve_configs = default_curves
    /\ curve_data = cleared(default_curves)
    /\ custom_displays = [i \in 1..DisplaySlots |-> <<>>]
    /\ custom_display_labels = [i \in 1..DisplaySlots |-> <<>>]

\* The reader thread hands over the next k bytes of the wire
Receive(k, dt) ==
    /\ k \in 1..Len(wire)
    /\ serial_port # Null
    /\ ~lost_signal
    /\ on_data_received(Take(wire, k), clock + dt)
    /\ wire' = Drop(wire, k)
    /\ UNCHANGED <<sent, recoveryVars, lifecycleVars,
                   last_extract, auxVars>>

(***************************************************************************)
(* Frames for the scenarios.                                               *)
(***************************************************************************)
\* number of trailing checksum bytes _verify_crc reads
crc_len(kind) == IF kind \in Crc16Kinds THEN 2 ELSE IF kind \in Crc8Kinds THEN 1 ELSE 0

\* the trailing bytes _verify_crc accepts after data
crc_bytes(kind, data) ==
    IF kind = "CRC16-MODBUS"
      THEN <<calculate_modbus_crc16(data) % 256, calculate_modbus_crc16(data) \div 256>>
    ELSE IF kind = "CRC16-XMODEM"
      THEN <<calculate_crc16_xmodem(data) % 256, calculate_crc16_xmodem(data) \div 256>>
    ELSE IF kind = "CRC16-CCITT"
      THEN <<calculate_ccitt_crc16(data) \div 256, calculate_ccitt_crc16(data) % 256>>
    ELSE IF kind = "sum" THEN <<calculate_sum_check(data)>>
    ELSE IF kind = "xor" THEN <<calculate_xor_check(data)>>
    ELSE <<>>

\* the checksum recomputed over the frame minus its trailing checksum bytes
\* equals those bytes: read big-endian for CRC16-CCITT, little-endian for
\* CRC16-XMODEM and CRC16-MODBUS, as one byte for sum and xor
ChecksumHolds(kind, f) ==
    LET n == Len(f)
    IN  /\ kind = "CRC16-CCITT" =>
              n >= 3 /\ calculate_ccitt_crc16(Take(f, n - 2)) = 256 * f[n - 1] + f[n]
        /\ kind = "CRC16-XMODEM" =>
              n >= 3 /\ calculate_crc16_xmodem(Take(f, n - 2)) = f[n - 1] + 256 * f[n]
        /\ kind = "CRC16-MODBUS" =>
              n >= 3 /\ calculate_modbus_crc16(Take(f, n - 2)) = f[n - 1] + 256 * f[n]
        /\ kind = "sum" => n >= 2 /\ calculate_sum_check(Take(f, n - 1)) = f[n]
        /\ kind = "xor" => n >= 2 /\ calculate_xor_check(Take(f, n - 1)) = f[n]

\* a valid frame of protocol p, as the device builds it: the protocol's length,
\* its header first, its tail last, and the checksum of its kind
ValidFrame(p, f) ==
    /\ Len(f) = p.length
    /\ Len(p.header) > 0 => OccursAt(f, p.header, 0)
    /\ Len(p.tail) > 0 => SliceFrom(f, Len(f) - Len(p.tail)) = p.tail
    /\ ChecksumHolds(p.crc_type, f)

\* the bytes payloads are drawn from: 00, 55, the header byte A8, the tail byte AA
PayloadBytes == {0, 85, 168, 170}

MaxEnumPayload == 2

\* payloads of n bytes: all of them when short, constant fills when long
Payloads(n) ==
    IF n <= 0 THEN {<<>>}
    ELSE IF n <= MaxEnumPayload THEN [1..n -> PayloadBytes]
    ELSE {[i \in 1..n |-> b] : b \in PayloadBytes}

\* valid frames of p: header, payload, then the tail (no checksum) or the checksum
FramesOf(p) ==
    LET n == p.length - Len(p.header) - Len(p.tail) - crc_len(p.crc_type)
        body == {p.header \o pl : pl \in Payloads(n)}
        long == {p.header \o pl \o p.tail :
                    pl \in Payloads(p.length - Len(p.header) - Len(p.tail))}
        cands == {b \o crc_bytes(p.crc_type, b) \o p.tail : b \in body} \cup long
    IN  {f \in cands : ValidFrame(p, f)}

DefaultProtocol == ProtocolConfig("default", FRAME_HEADER, FRAME_LENGTH, FRAME_TAIL, "none", TRUE)

(***************************************************************************)
(* Chunking: one valid frame, handed over in any sequence of chunks.       *)
(***************************************************************************)
ChunkProtocols ==
    { ProtocolConfig("P1", <<168, 168>>, 6, <<170>>, "none", TRUE),
      ProtocolConfig("P2", <<85>>, 4, <<>>, "sum", TRUE),
      ProtocolConfig("P3", <<>>, 3, <<>>, "xor", TRUE),
      ProtocolConfig("P4", <<85, 170>>, 5, <<>>, "CRC16-MODBUS", TRUE),
      ProtocolConfig("P5", <<168>>, 4, <<>>, "CRC16-CCITT", TRUE),
      ProtocolConfig("P6", <<168, 85>>, 5, <<>>, "CRC16-XMODEM", TRUE),
      ProtocolConfig("P7", <<168>>, 3, <<0>>, "xor", TRUE) }

InitChunk ==
    \/ \E f \in FramesOf(DefaultProtocol) : AppInit(<<>>, f, <<f>>)
    \/ \E p \in ChunkProtocols : \E f \in FramesOf(p) : AppInit(<<p>>, f, <<f>>)

ReceiveChunk == \E k \in 1..Len(wire) : Receive(k, POLL_MS)

NextChunk == ReceiveChunk

SpecChunk == InitChunk /\ [][NextChunk]_vars

\* the synchronizer a single-protocol scenario is about: the default one when the
\* registry is empty, else the one generic parser
UnderTest == IF protocol_configs = <<>> THEN 0 ELSE 1

\* the frames a synchronizer has emitted, in order
RECURSIVE FramesFrom(_, _)
FramesFrom(log, src) ==
    IF log = <<>> THEN <<>>
    ELSE (IF Head(log).src = src THEN <<Head(log).frame>> ELSE <<>>)
         \o FramesFrom(Tail(log), src)

\* what a synchronizer started empty emits when it is fed data in one call
FedWhole(data) ==
    IF UnderTest = 0
    THEN [k \in 1..Len(DataParser_parse(DataParser_add_data(<<>>, data)).results) |->
             DataParser_parse(DataParser_add_data(<<>>, data)).results[k].raw_frame]
    ELSE LET p == GenericProtocolParser(protocol_configs[1])
             r == parse(p, add_data(<<>>, data)).results
         IN  [k \in 1..Len(r) |-> r[k].raw_frame]

\* C1: once the last chunk of a valid frame has been fed, the synchronizer has
\* emitted, over all the calls together, exactly one frame: the frame itself,
\* which is also what feeding the frame whole emits.
C1_ChunkingInvariance ==
    wire = <<>> =>
        /\ FramesFrom(emitted, UnderTest) = <<sent[1]>>
        /\ FramesFrom(emitted, UnderTest) = FedWhole(sent[1])

\* a frame fed in at least three chunks has been emitted
C1_Witness ==
    /\ wire = <<>>
    /\ rx_calls >= 3
    /\ UnderTest = 1
    /\ FramesFrom(emitted, 1) = <<sent[1]>>

(***************************************************************************)
(* Bulk: back-to-back valid frames, handed over whole or in large chunks.  *)
(***************************************************************************)
MaxFrames == 11

BigProtocol ==
    ProtocolConfig("BIG", <<168, 168>>, SPIN_LENGTH_MAX, <<170, 170>>, "none", TRUE)

BulkProtocols ==
    { ProtocolConfig("P4", <<85, 170>>, 5, <<>>, "CRC16-MODBUS", TRUE),
      ProtocolConfig("P5", <<168>>, 4, <<>>, "CRC16-CCITT", TRUE),
      BigProtocol }

\* the valid frames a bulk scenario draws from
BulkFramesOf(p) ==
    IF p = BigProtocol
    THEN {p.header \o [i \in 1..(p.length - 4) |-> 0] \o p.tail}
    ELSE FramesOf(p)

\* n frames, alternating between two valid frames f and g
Alternating(f, g, n) == [i \in 1..n |-> IF i % 2 = 1 THEN f ELSE g]

InitBulk ==
    \E p \in BulkProtocols : \E f, g \in BulkFramesOf(p) : \E n \in 1..MaxFrames :
        AppInit(<<p>>, ConcatAll(Alternating(f, g, n), 1), Alternating(f, g, n))

\* the sizes of the reads the reader thread hands over in a bulk scenario
BulkSizes == {1000, 10000}

ReceiveAll == Receive(Len(wire), POLL_MS)

ReceiveBulk == \E k \in BulkSizes : k < Len(wire) /\ Receive(k, POLL_MS)

NextBulk == ReceiveAll \/ ReceiveBulk

SpecBulk == InitBulk /\ [][NextBulk]_vars

\* C2: N valid back-to-back frames fed in one call yield exactly those N frames,
\* in input order, whatever N x frame length is.
C2_Concatenation ==
    (wire = <<>> /\ rx_calls = 1) => FramesFrom(emitted, 1) = sent

\* C8: after add_data a generic parser's buffer holds at most 10240 bytes, and
\* when appending the chunk took it above 10240 it is exactly the last 5120
\* bytes of old buffer + chunk.
C8_BufferCap ==
    [][rx_calls' = rx_calls + 1 =>
        \A i \in DOMAIN protocol_parsers :
            LET extended == protocol_parsers[i].buffer \o Take(wire, Len(wire) - Len(wire'))
                added    == last_rx'.added[i]
            IN  /\ Len(added) <= 10240
                /\ Len(extended) > 10240 => added = Suffix(extended, 5120)
                /\ Len(extended) <= 10240 => added = extended]_vars

\* an append onto a non-empty buffer went over the limit and was cut
C8_Witness ==
    /\ rx_calls >= 2
    /\ \E i \in DOMAIN last_rx.added : Len(last_rx.added[i]) = BUFFER_KEEP

(***************************************************************************)
(* Resynchronisation: a valid frame, a frame with a bad checksum, a valid  *)
(* frame, fed as one chunk to a protocol with a checksum.                  *)
(***************************************************************************)
ResyncProtocols ==
    { ProtocolConfig("R1", <<168>>, 3, <<>>, "xor", TRUE),
      ProtocolConfig("R2", <<>>, 2, <<>>, "sum", TRUE),
      ProtocolConfig("R3", <<168, 168>>, 5, <<>>, "sum", TRUE),
      ProtocolConfig("R4", <<85>>, 4, <<>>, "CRC16-MODBUS", TRUE),
      ProtocolConfig("R5", <<168>>, 4, <<>>, "CRC16-CCITT", TRUE),
      ProtocolConfig("R6", <<85>>, 4, <<>>, "CRC16-XMODEM", TRUE) }

\* a frame with its last two bytes exchanged
SwapLastTwo(f) ==
    [f EXCEPT ![Len(f) - 1] = f[Len(f)], ![Len(f)] = f[Len(f) - 1]]

\* frames of p with the right header and length whose checksum is wrong: a valid
\* frame with its last byte replaced, or with a 16-bit checksum sent in the
\* other byte order
BadFramesOf(p) ==
    LET cands == {[f EXCEPT ![Len(f)] = 168] : f \in FramesOf(p)}
                 \cup {[f EXCEPT ![Len(f)] = (f[Len(f)] + 1) % 256] : f \in FramesOf(p)}
                 \cup (IF p.crc_type \in Crc16Kinds
                         THEN {SwapLastTwo(f) : f \in FramesOf(p)} ELSE {})
    IN  {f \in cands : ~ChecksumHolds(p.crc_type, f)}

InitResync ==
    \E p \in ResyncProtocols :
      \E f1 \in FramesOf(p) : \E bad \in BadFramesOf(p) : \E f2 \in FramesOf(p) :
        AppInit(<<p>>, f1 \o bad \o f2, <<f1, bad, f2>>)

NextResync == ReceiveAll

SpecResync == InitResync /\ [][NextResync]_vars

\* the stream position at which each frame of a synchronizer started
RECURSIVE StartsFrom(_, _)
StartsFrom(log, src) ==
    IF log = <<>> THEN <<>>
    ELSE (IF Head(log).src = src THEN <<Head(log).pos[1]>> ELSE <<>>)
         \o StartsFrom(Tail(log), src)

\* exactly the two valid frames were emitted, from where they stand in the stream
OnlyValidFramesEmitted ==
    /\ FramesFrom(emitted, 1) = <<sent[1], sent[3]>>
    /\ StartsFrom(emitted, 1) = <<0, 2 * Len(sent[1])>>

\* C3 as claimed: for every choice of payload bytes, [valid1, bad, valid2] fed to
\* an empty synchronizer emits exactly valid1 and valid2 and nothing that
\* overlaps the corrupted frame.
C3_ResyncEveryPayload == wire = <<>> => OnlyValidFramesEmitted

\* the header occurs in the stream at an offset inside the corrupted frame,
\* past the header_length bytes dropped after the checksum failure
HeaderInsideCorrupted ==
    LET p == protocol_configs[1]
        rest == sent[2] \o sent[3]
    IN  \E i \in Len(p.header)..(p.length - 1) : OccursAt(rest, p.header, i)

\* C3 as amended: the same, provided the header is non-empty and does not occur
\* at an offset inside the corrupted frame past its first header_length bytes.
C3_ResyncHeaderFree ==
    (wire = <<>> /\ Len(protocol_configs[1].header) > 0 /\ ~HeaderInsideCorrupted)
        => OnlyValidFramesEmitted

\* a resynchronisation over a corrupted frame whose payload holds the header
\* byte of a two-byte header, without holding the whole header
C3_Witness ==
    /\ wire = <<>>
    /\ Len(protocol_configs[1].header) = 2
    /\ ~HeaderInsideCorrupted
    /\ sent[2][3] = 168
    /\ OnlyValidFramesEmitted

\* C6: every frame a generic parser with a checksum kind has emitted carries a
\* valid checksum over the frame minus its trailing checksum bytes, in the byte
\* order of its kind; the corrupted frame is never among the emitted frames.
C6_EmittedChecksumValid ==
    \A k \in DOMAIN emitted :
        emitted[k].src > 0 =>
            /\ protocol_configs[emitted[k].src].crc_type # "none"
            /\ ChecksumHolds(protocol_configs[emitted[k].src].crc_type, emitted[k].frame)
            /\ emitted[k].frame # sent[2]

\* a CRC16-CCITT stream whose corrupted frame carries the checksum in
\* little-endian order was parsed, and the valid frames came out
C6_Witness ==
    /\ wire = <<>>
    /\ protocol_configs[1].crc_type = "CRC16-CCITT"
    /\ ChecksumHolds("CRC16-CCITT", SwapLastTwo(sent[2]))
    /\ Len(emitted) >= 2

(***************************************************************************)
(* The protocol registry and the dispatcher: definitions are added, edited, *)
(* deleted and imported while a stream of frames arrives.                  *)
(***************************************************************************)
\* the add button is used while the registry holds fewer definitions than this
MaxProtocols == 1

\* ProtocolConfigDialog.get_data on the dialog's fields (the hex fields hold byte
\* values): the definition, as a one-element sequence, or the empty sequence
\* for None when the name is empty after strip()
get_data(name, header, length, tail, crc_type, enabled) ==
    IF name = "" THEN <<>>
    ELSE <<ProtocolConfig(name, header, length, tail, crc_type, enabled)>>

\* what the user may have entered when the dialog is accepted
DialogInputs ==
    { get_data("DUP", <<168, 168>>, 38, <<170, 170>>, "none", TRUE),
      get_data("PRE", <<168>>, 38, <<170, 170>>, "none", TRUE),
      get_data("OFF", <<168, 168>>, 38, <<170, 170>>, "none", FALSE),
      get_data("S", <<85>>, 4, <<>>, "sum", TRUE),
      get_data("BAD", <<168, 168>>, SPIN_LENGTH_MIN, <<>>, "none", TRUE),
      get_data("", <<85>>, 4, <<>>, "sum", TRUE) }

\* the protocol_configs entries of the configuration files the user may import:
\* files that save_config wrote from a registry built with the dialog
ConfigFiles ==
    { <<>>,
      get_data("PRE", <<168>>, 38, <<170, 170>>, "none", TRUE),
      get_data("BAD", <<168, 168>>, SPIN_LENGTH_MIN, <<>>, "none", TRUE)
        \o get_data("S", <<85>>, 4, <<>>, "sum", TRUE),
      get_data("OFF", <<168, 168>>, 38, <<170, 170>>, "none", FALSE)
        \o get_data("S", <<85>>, 4, <<>>, "sum", TRUE) }

\* open_protocol_manager.add_protocol, the dialog accepted with fields data
add_protocol(data) ==
    /\ Len(protocol_configs) < MaxProtocols
    /\ IF data # <<>>
         THEN /\ protocol_configs' = Append(protocol_configs, data[1])
              /\ protocol_parsers' = init_protocol_parsers(protocol_configs')
         ELSE UNCHANGED <<protocol_configs, protocol_parsers>>
    /\ UNCHANGED <<parser_buffer, parser_pos, rx_count, rx_calls, emitted, last_rx,
                   grouperVars, clock, wire, sent, recoveryVars, lifecycleVars,
                   last_extract, consumerVars, auxVars>>

\* open_protocol_manager.edit_protocol on the selected row
edit_protocol(current_row, data) ==
    /\ current_row >= 0 /\ current_row < Len(protocol_configs)
    /\ IF data # <<>>
         THEN /\ protocol_configs' = [protocol_configs EXCEPT ![current_row + 1] = data[1]]
              /\ protocol_parsers' = init_protocol_parsers(protocol_configs')
         ELSE UNCHANGED <<protocol_configs, protocol_parsers>>
    /\ UNCHANGED <<parser_buffer, parser_pos, rx_count, rx_calls, emitted, last_rx,
                   grouperVars, clock, wire, sent, recoveryVars, lifecycleVars,
                   last_extract, consumerVars, auxVars>>

\* open_protocol_manager.delete_protocol on the selected row, confirmed
delete_protocol(current_row) ==
    /\ current_row >= 0 /\ current_row < Len(protocol_configs)
    /\ protocol_configs' = Take(protocol_configs, current_row)
                              \o Drop(protocol_configs, current_row + 1)
    /\ protocol_parsers' = init_protocol_parsers(protocol_configs')
    /\ UNCHANGED <<parser_buffer, parser_pos, rx_count, rx_calls, emitted, last_rx,
                   grouperVars, clock, wire, sent, recoveryVars, lifecycleVars,
                   last_extract, consumerVars, auxVars>>

\* load_config, as import_config_file runs it on a file whose protocol_configs
\* entry is configs (frame_interval_ms as saved)
load_config(configs) ==
    /\ protocol_configs' = configs
    /\ protocol_parsers' = init_protocol_parsers(protocol_configs')
    /\ UNCHANGED <<parser_buffer, parser_pos, rx_count, rx_calls, emitted, last_rx,
                   grouperVars, clock, wire, sent, recoveryVars, lifecycleVars,
                   last_extract, consumerVars, auxVars>>

\* the frames of the dispatch scenarios: a frame of the default protocol and a
\* frame of definition S
DefaultFrame == FRAME_HEADER \o [i \in 1..(FRAME_LENGTH - 4) |-> 0] \o FRAME_TAIL

SumFrame == <<85, 0, 0, 85>>

DispatchStreams == { <<DefaultFrame, SumFrame>>, <<SumFrame, DefaultFrame>> }

InitDispatch ==
    \E frames \in DispatchStreams : AppInit(<<>>, ConcatAll(frames, 1), frames)

AddProtocol == \E data \in DialogInputs : add_protocol(data)

\* list_widget.currentRow(): -1 when no row is selected
Rows == -1..(Len(protocol_configs) - 1)

EditProtocol == \E current_row \in Rows : \E data \in DialogInputs :
                    edit_protocol(current_row, data)

DeleteProtocol == \E current_row \in Rows : delete_protocol(current_row)

LoadConfig == \E configs \in ConfigFiles : load_config(configs)

\* the reader thread hands over one frame length of the default protocol
ReceiveFrameLength == FRAME_LENGTH < Len(wire) /\ Receive(FRAME_LENGTH, POLL_MS)

NextDispatch ==
    \/ AddProtocol
    \/ EditProtocol
    \/ DeleteProtocol
    \/ LoadConfig
    \/ ReceiveAll
    \/ ReceiveFrameLength

SpecDispatch == InitDispatch /\ [][NextDispatch]_vars

\* C4: no on_data_received call hands the same stretch of stream bytes
\* downstream from two synchronizers: not from the default path and a generic
\* parser, and not from two generic parsers.
C4_NoDuplicateEmission ==
    LET d == last_rx.default_results
        c == last_rx.custom_results
    IN  /\ \A i \in DOMAIN c : \A k \in DOMAIN c[i] : \A m \in DOMAIN d :
               c[i][k].pos # d[m].pos
        /\ \A i, j \in DOMAIN c : i # j =>
               \A k \in DOMAIN c[i] : \A m \in DOMAIN c[j] : c[i][k].pos # c[j][m].pos

\* the chunk an on_data_received step consumed
ChunkTaken == Take(wire, Len(wire) - Len(wire'))

\* some enabled definition of the registry has header exactly A8 A8
HeaderConflict ==
    \E i \in DOMAIN protocol_configs :
        protocol_configs[i].enabled /\ protocol_configs[i].header = <<168, 168>>

\* C5: in an on_data_received call with an enabled definition whose header is
\* exactly A8 A8 the default parser's buffer is unchanged and the default path
\* hands nothing downstream; in every other call the chunk is appended to the
\* default parser's buffer and parsed, and its frames go downstream.
C5_ConflictRule ==
    [][rx_calls' = rx_calls + 1 =>
        LET parsed == DataParser_parse(parser_buffer \o ChunkTaken)
        IN  /\ HeaderConflict =>
                /\ parser_buffer' = parser_buffer
                /\ last_rx'.default_results = <<>>
                /\ FramesFrom(emitted', 0) = FramesFrom(emitted, 0)
            /\ ~HeaderConflict =>
                /\ parser_buffer' = parsed.buffer
                /\ Len(last_rx'.default_results) = Len(parsed.results)
                /\ \A k \in DOMAIN parsed.results :
                       last_rx'.default_results[k].frame = parsed.results[k].raw_frame]_vars

\* the default parser was left out of a call while it held the start of a frame
C5_Witness ==
    /\ rx_calls >= 2
    /\ ~last_rx.use_default
    /\ parser_buffer # <<>>
    /\ \E i \in DOMAIN protocol_configs : ~protocol_configs[i].enabled

IsEnabled(config) == config.enabled

\* the definitions the parsers of the registry were built from
ParserConfigs == [i \in DOMAIN protocol_parsers |-> config_of(protocol_parsers[i])]

\* C36: the parsers of the registry are those of the enabled definitions, in
\* order, so a disabled definition has none and emits nothing; a disabled
\* definition with header A8 A8 does not keep a chunk from the default parser;
\* and every on_data_received call appends its chunk to the buffer of every
\* enabled definition's parser and parses it, whether or not the default
\* parser was fed.
C36_DisabledInert ==
    /\ [](ParserConfigs = SelectSeq(protocol_configs, IsEnabled))
    /\ [][rx_calls' = rx_calls + 1 =>
            /\ last_rx'.protocols = SelectSeq(protocol_configs, IsEnabled)
            /\ \A i \in DOMAIN last_rx'.custom_results :
                   \A k \in DOMAIN last_rx'.custom_results[i] :
                       last_rx'.protocols[i].enabled
            /\ (\A i \in DOMAIN protocol_configs :
                    protocol_configs[i].header = default_header
                        => ~protocol_configs[i].enabled)
                 => /\ last_rx'.use_default
                    /\ parser_buffer' = DataParser_parse(parser_buffer \o ChunkTaken).buffer
            /\ \A i \in DOMAIN protocol_parsers :
                   LET fed == protocol_parsers[i].buffer \o ChunkTaken
                       st  == parse(protocol_parsers[i], fed)
                   IN  /\ last_rx'.added[i] = fed
                       /\ protocol_parsers'[i].buffer = st.buffer
                       /\ Len(last_rx'.custom_results[i]) = Len(st.results)]_vars

\* with a disabled definition of header A8 A8 and an enabled one in the
\* registry, a call went to the default parser and to the enabled definition's
\* parser, and both emitted a frame
C36_Witness ==
    /\ rx_calls >= 1
    /\ \E i \in DOMAIN protocol_configs :
           ~protocol_configs[i].enabled /\ protocol_configs[i].header = default_header
    /\ Len(protocol_parsers) = 1
    /\ Len(protocol_configs) = 2
    /\ last_rx.use_default
    /\ last_rx.default_results # <<>>
    /\ last_rx.custom_results[1] # <<>>

\* a frame of the right length that starts with the header and ends with the
\* tail of definition p, emitted by removing exactly its length from the buffer
WellShaped(p, e) ==
    /\ Len(e.frame) = p.length
    /\ Len(p.header) > 0 => OccursAt(e.frame, p.header, 0)
    /\ Len(p.tail) > 0 =>
          /\ Len(e.frame) >= Len(p.tail)
          /\ Suffix(e.frame, Len(p.tail)) = p.tail
    /\ e.removed = p.length

\* C7: every frame a call emits has its protocol's frame length, begins with
\* the full header and ends with the full tail, and its emission removed
\* exactly frame-length bytes, whatever definitions the registry holds.
C7_FrameShape ==
    /\ \A m \in DOMAIN last_rx.default_results :
           WellShaped(DefaultProtocol, last_rx.default_results[m])
    /\ \A i \in DOMAIN last_rx.custom_results :
           \A k \in DOMAIN last_rx.custom_results[i] :
               WellShaped(last_rx.protocols[i], last_rx.custom_results[i][k])

\* C9: every definition the registry holds has a non-empty name and a frame
\* length of at least header length + tail length + checksum byte count.
C9_RegistryWellFormed ==
    \A i \in DOMAIN protocol_configs :
        /\ protocol_configs[i].name # ""
        /\ protocol_configs[i].length >=
               Len(protocol_configs[i].header) + Len(protocol_configs[i].tail)
                   + crc_len(protocol_configs[i].crc_type)

(***************************************************************************)
(* Connection loss and smart recovery.                                     *)
(***************************************************************************)
\* the recovery timeout and the stability time, in ms (10.0 s and 1.0 s)
RECOVERY_TIMEOUT_MS == 10000

STABLE_MS == 1000

\* the interval of recovery_check_timer, in ms
RECOVERY_TICK_MS == 100

\* the clock stops here
MaxClock == 10300

\* the delays after which a tick of the 100 ms timer runs: on time, or late
TickDelays == {RECOVERY_TICK_MS, 3 * RECOVERY_TICK_MS}

syncAll == <<syncVars, wire, sent>>

\* SerialThread.run, the read raises: connection_lost is emitted and queued,
\* and the reader leaves its loop
ReadError ==
    /\ UNCHANGED <<last_extract, consumerVars, auxVars>>
    /\ window = WINDOW_OPEN
    /\ serial_port # Null
    /\ serial_thread # Null
    /\ ~lost_signal
    /\ lost_signal' = TRUE
    /\ readers' = readers \ {serial_thread}
    /\ UNCHANGED <<syncAll, grouperVars, clock, serial_port, lost_port_info,
                   recovery_check_timer, recovery_start_time, port_stable_time,
                   last_port_state, btn_connect, probe, seen>>
    /\ UNCHANGED <<serial_thread, plot_timer, presetVars, lost_port_config,
                   lost_port_baudrate, comboVars, port_baudrate, open_ports,
                   reconnected_at, attempts, window>>

\* the flush as it would be if it cleared the buffer without showing it
FlushRx_drop ==
    /\ display' = display
    /\ rx_buffer' = <<>>
    /\ last_rx_time' = None
    /\ UNCHANGED frame_interval_ms

\* the rx_buffer flush that on_connection_lost and close_serial start with
FlushRx ==
    /\ display' = IF Len(rx_buffer) > 0 THEN Append(display, rx_buffer) ELSE display
    /\ rx_buffer' = <<>>
    /\ last_rx_time' = None
    /\ UNCHANGED frame_interval_ms

\* stop_recovery_check that leaves the probe timer running
stop_recovery_check_timer_kept ==
    /\ recovery_check_timer' = recovery_check_timer
    /\ recovery_start_time' = None
    /\ port_stable_time' = None
    /\ last_port_state' = FALSE
    /\ lost_port_info' = Null
    /\ lost_port_baudrate' = None
    /\ lost_port_config' = <<>>

\* stop_recovery_check that leaves the snapshot in place
stop_recovery_check_snapshot_kept ==
    /\ recovery_check_timer' = Null
    /\ recovery_start_time' = None
    /\ port_stable_time' = None
    /\ last_port_state' = FALSE
    /\ lost_port_info' = lost_port_info
    /\ lost_port_baudrate' = lost_port_baudrate
    /\ lost_port_config' = lost_port_config

\* stop_recovery_check: the values it leaves in the recovery fields
stop_recovery_check ==
    /\ recovery_check_timer' = Null
    /\ recovery_start_time' = None
    /\ port_stable_time' = None
    /\ last_port_state' = FALSE
    /\ lost_port_info' = Null
    /\ lost_port_baudrate' = None
    /\ lost_port_config' = <<>>

\* every preset timer stopped
AllStopped == [i \in DOMAIN preset_timers |-> None]

\* on_connection_lost, the (i, preset) pairs of the timers that are active
active_presets ==
    LET Collect[n \in 0..Len(preset_timers)] ==
            IF n = 0 THEN <<>>
            ELSE IF preset_timers[n] # None /\ n <= Len(preset_commands)
                 THEN Append(Collect[n - 1], <<n, preset_commands[n]>>)
                 ELSE Collect[n - 1]
    IN  Collect[Len(preset_timers)]

\* recover_connection, the timers after the preset_states are restored
restore_presets(timers, preset_states) ==
    [i \in DOMAIN timers |->
        IF \E k \in DOMAIN preset_states : preset_states[k][1] = i
        THEN interval_ms((CHOOSE s \in {preset_states[k] : k \in DOMAIN preset_states} :
                              s[1] = i)[2])
        ELSE timers[i]]

\* on_connection_lost followed by start_smart_recovery, datetime.now() reading now
on_connection_lost(now) ==
    /\ UNCHANGED <<last_extract, consumerVars, auxVars>>
    /\ window = WINDOW_OPEN
    /\ lost_signal
    /\ lost_signal' = FALSE
    /\ now >= clock
    /\ clock' = now
    /\ FlushRx
    /\ IF serial_port # Null
         THEN /\ lost_port_info' = combo_port
              /\ lost_port_baudrate' = combo_baudrate
              /\ lost_port_config' = <<active_presets>>
         ELSE UNCHANGED <<lost_port_info, lost_port_baudrate, lost_port_config>>
    /\ preset_timers' = AllStopped
    /\ plot_timer' = FALSE
    /\ serial_thread' = Null
    /\ readers' = readers \ {serial_thread}
    /\ open_ports' = open_ports \ {serial_port}
    /\ serial_port' = Null
    /\ port_baudrate' = None
    /\ IF lost_port_info' = Null
         THEN /\ btn_connect' = BTN_OPEN
              /\ UNCHANGED <<recovery_check_timer, recovery_start_time,
                             port_stable_time, last_port_state, attempts>>
         ELSE /\ btn_connect' = BTN_DETECTING
              /\ recovery_start_time' = now
              /\ port_stable_time' = None
              /\ last_port_state' = FALSE
              /\ recovery_check_timer' = TIMER_ACTIVE
              /\ attempts' = 0
    /\ seen' = NotSeen
    /\ UNCHANGED <<syncAll, probe, preset_commands, comboVars, reconnected_at, window>>

\* check_port_recovery, the device absent: an appearance under way is forgotten
port_absent_ignored(stable, last) == [port_stable_time |-> stable, last_port_state |-> last]

\* the device absent, as it would be if the stabilization start time were kept
port_absent_keeps_time(stable, last) ==
    [port_stable_time |-> stable, last_port_state |-> FALSE]

port_absent(stable, last) ==
    [port_stable_time |-> IF last THEN None ELSE stable, last_port_state |-> FALSE]

\* what the probe ticks have seen of the device once a tick at now observes
\* port_exists: since is the first tick of the unbroken run of ticks that saw
\* it present, flapped tells that it was seen to appear and then to be absent
Observe(now, port_exists) ==
    IF port_exists
    THEN [since |-> IF seen.since = None THEN now ELSE seen.since, flapped |-> seen.flapped]
    ELSE [since |-> None, flapped |-> seen.flapped \/ seen.since # None]

\* serial.Serial(port=port, ...): open_ok tells whether the device lets the port
\* be opened; a port this process already holds open is not opened again
serial_opens(port, open_ok) == open_ok /\ port \notin open_ports

\* recover_connection; open_ok tells whether serial.Serial opens the port
recover_connection(open_ok) ==
    /\ stop_recovery_check
    /\ attempts' = attempts + 1
    /\ IF lost_port_info # Null /\ serial_opens(lost_port_info, open_ok)
         THEN /\ serial_port' = lost_port_info
              /\ port_baudrate' = lost_port_baudrate
              /\ open_ports' = open_ports \cup {lost_port_info}
              /\ serial_thread' = lost_port_info
              /\ readers' = readers \cup {lost_port_info}
              /\ plot_timer' = TRUE
              /\ preset_timers' =
                     IF lost_port_config # <<>>
                     THEN restore_presets(preset_timers, lost_port_config[1])
                     ELSE preset_timers
              /\ reconnected_at' = rx_count
              /\ btn_connect' = BTN_CLOSE
         ELSE /\ btn_connect' = BTN_OPEN
              /\ UNCHANGED <<serial_port, port_baudrate, open_ports, serial_thread,
                             readers, plot_timer, preset_timers, reconnected_at>>
    /\ UNCHANGED <<preset_commands, comboVars, window>>

\* check_port_recovery: a tick of recovery_check_timer, datetime.now() reading
\* now and comports() listing the target port or not
check_port_recovery(now, port_exists, open_ok) ==
    /\ UNCHANGED <<last_extract, consumerVars, auxVars>>
    /\ window = WINDOW_OPEN
    /\ recovery_check_timer = TIMER_ACTIVE
    /\ now >= clock
    /\ clock' = now
    /\ IF lost_port_info = Null \/ recovery_start_time = None
            \/ now - recovery_start_time > RECOVERY_TIMEOUT_MS
       THEN /\ stop_recovery_check
            /\ btn_connect' = IF btn_connect = BTN_DETECTING THEN BTN_OPEN ELSE btn_connect
            /\ probe' = [time |-> now, observed |-> FALSE, port_exists |-> port_exists,
                         recovered |-> FALSE, since |-> Observe(now, port_exists).since,
                         flapped |-> Observe(now, port_exists).flapped,
                         timed_out |-> TRUE]
            /\ seen' = NotSeen
            /\ UNCHANGED <<serial_port, sessionVars>>
       ELSE IF port_exists /\ last_port_state /\ port_stable_time # None
                 /\ now - port_stable_time >= STABLE_MS
       THEN /\ recover_connection(open_ok)
            /\ probe' = [time |-> now, observed |-> TRUE, port_exists |-> TRUE,
                         recovered |-> TRUE, since |-> Observe(now, TRUE).since,
                         flapped |-> seen.flapped, timed_out |-> FALSE]
            /\ seen' = NotSeen
       ELSE /\ IF port_exists
                 THEN /\ port_stable_time' = IF last_port_state THEN port_stable_time ELSE now
                      /\ last_port_state' = TRUE
                 ELSE /\ port_stable_time' =
                            port_absent(port_stable_time, last_port_state).port_stable_time
                      /\ last_port_state' =
                            port_absent(port_stable_time, last_port_state).last_port_state
            /\ probe' = [time |-> now, observed |-> TRUE, port_exists |-> port_exists,
                         recovered |-> FALSE, since |-> Observe(now, port_exists).since,
                         flapped |-> Observe(now, port_exists).flapped,
                         timed_out |-> FALSE]
            /\ seen' = Observe(now, port_exists)
            /\ UNCHANGED <<serial_port, lost_port_info, recovery_check_timer,
                           recovery_start_time, btn_connect, sessionVars,
                           lost_port_baudrate, lost_port_config>>
    /\ UNCHANGED <<syncAll, grouperVars, lost_signal>>

\* open_serial; open_ok tells whether serial.Serial opens the port
open_serial(open_ok) ==
    /\ UNCHANGED <<last_extract, consumerVars, auxVars>>
    /\ IF serial_opens(combo_port, open_ok)
         THEN /\ serial_port' = combo_port
              /\ port_baudrate' = combo_baudrate
              /\ open_ports' = open_ports \cup {combo_port}
              /\ serial_thread' = combo_port
              /\ readers' = readers \cup {combo_port}
              /\ plot_timer' = TRUE
              /\ btn_connect' = BTN_CLOSE
              /\ preset_timers' = start_periodic(preset_timers, preset_commands)
         ELSE UNCHANGED <<serial_port, btn_connect, port_baudrate, open_ports,
                          serial_thread, readers, plot_timer, preset_timers>>
    /\ UNCHANGED <<syncAll, grouperVars, clock, lost_signal, lost_port_info,
                   recovery_check_timer, recovery_start_time, port_stable_time,
                   last_port_state, probe, seen>>
    /\ UNCHANGED <<preset_commands, lost_port_config, lost_port_baudrate, comboVars,
                   reconnected_at, attempts, window>>

\* close_serial that starts every synchronizer afresh
close_serial_resets ==
    /\ UNCHANGED <<last_extract, consumerVars, auxVars>>
    /\ FlushRx
    /\ parser_buffer' = <<>>
    /\ parser_pos' = <<>>
    /\ protocol_parsers' = init_protocol_parsers(protocol_configs)
    /\ serial_thread' = Null
    /\ readers' = readers \ {serial_thread}
    /\ open_ports' = open_ports \ {serial_port}
    /\ serial_port' = Null
    /\ port_baudrate' = None
    /\ plot_timer' = FALSE
    /\ preset_timers' = AllStopped
    /\ btn_connect' = BTN_OPEN
    /\ UNCHANGED <<protocol_configs, rx_count, rx_calls, emitted, last_rx, wire, sent,
                   clock, lost_signal, lost_port_info, recovery_check_timer,
                   recovery_start_time, port_stable_time, last_port_state, probe, seen>>
    /\ UNCHANGED <<preset_commands, lost_port_config, lost_port_baudrate, comboVars,
                   reconnected_at, attempts, window>>

\* close_serial
close_serial ==
    /\ UNCHANGED <<last_extract, consumerVars, auxVars>>
    /\ FlushRx
    /\ serial_thread' = Null
    /\ readers' = readers \ {serial_thread}
    /\ open_ports' = open_ports \ {serial_port}
    /\ serial_port' = Null
    /\ port_baudrate' = None
    /\ plot_timer' = FALSE
    /\ preset_timers' = AllStopped
    /\ btn_connect' = BTN_OPEN
    /\ UNCHANGED <<syncAll, clock, lost_signal, lost_port_info, recovery_check_timer,
                   recovery_start_time, port_stable_time, last_port_state, probe, seen>>
    /\ UNCHANGED <<preset_commands, lost_port_config, lost_port_baudrate, comboVars,
                   reconnected_at, attempts, window>>

\* toggle_serial: the connect button is clicked
toggle_serial(open_ok) ==
    /\ window = WINDOW_OPEN
    /\ IF serial_port = Null THEN open_serial(open_ok) ELSE close_serial

\* closeEvent: close_serial when the port is open, then stop_recovery_check
closeEvent ==
    /\ UNCHANGED <<last_extract, consumerVars, auxVars>>
    /\ window = WINDOW_OPEN
    /\ window' = WINDOW_CLOSED
    /\ stop_recovery_check
    /\ IF serial_port # Null
         THEN /\ FlushRx
              /\ serial_thread' = Null
              /\ readers' = readers \ {serial_thread}
              /\ open_ports' = open_ports \ {serial_port}
              /\ serial_port' = Null
              /\ port_baudrate' = None
              /\ plot_timer' = FALSE
              /\ preset_timers' = AllStopped
              /\ btn_connect' = BTN_OPEN
         ELSE /\ btn_connect' = IF btn_connect = BTN_DETECTING THEN BTN_OPEN
                                ELSE btn_connect
              /\ UNCHANGED <<grouperVars, serial_thread, readers, open_ports,
                             serial_port, port_baudrate, plot_timer, preset_timers>>
    /\ UNCHANGED <<syncAll, clock, lost_signal, probe, seen, preset_commands,
                   comboVars, reconnected_at, attempts>>

InitRecovery == AppInit(<<>>, <<>>, <<>>)

ConnectionLost == on_connection_lost(clock)

RecoveryTick ==
    \E dt \in TickDelays : \E port_exists, open_ok \in BOOLEAN :
        /\ clock + dt <= MaxClock
        /\ check_port_recovery(clock + dt, port_exists, open_ok)

ToggleSerial == \E open_ok \in BOOLEAN : toggle_serial(open_ok)

\* the window is closed: the application has quit
CloseEvent == closeEvent

NextRecovery ==
    \/ ReadError
    \/ ConnectionLost
    \/ RecoveryTick
    \/ ToggleSerial
    \/ CloseEvent

SpecRecovery == InitRecovery /\ [][NextRecovery]_vars

\* C10: a probe tick invokes recover_connection only if it observes the device
\* present and every probe tick since the device was first seen, at least 1 s
\* before, observed it present; an appearance followed by an observed absence
\* within 1 s leads to no reconnect attempt.
C10_NoEarlyReconnect ==
    probe.recovered =>
        /\ probe.port_exists
        /\ probe.since # None
        /\ probe.time - probe.since >= 1000

\* a reconnect attempt after the device had appeared, gone again and come back
C10_Witness ==
    /\ probe.recovered
    /\ probe.flapped
    /\ probe.time - probe.since >= 1000

\* C11: when the device has appeared after a connection loss and every probe
\* tick for at least 1 s since has observed it present, that probe tick makes a
\* reconnect attempt (recover_connection), and a recovery makes at most one
\* reconnect attempt: the probe timer is stopped by the attempt.
C11_OneAttemptWhenStable ==
    /\ (/\ probe.port_exists
        /\ probe.since # None
        /\ probe.time - probe.since >= STABLE_MS) => probe.recovered
    /\ attempts <= 1

\* C12: a probe tick that reads more than 10 s since the start of probing
\* abandons the recovery: the probe timer is stopped and released, the snapshot
\* and the stabilization state are cleared, the byte source is left as it was
\* (not reopened) with the button back to manual connect; and a probe tick runs
\* only while the probe timer is active, so none runs afterwards.
C12_TimeoutAbandons ==
    [][/\ (/\ probe' # probe
           /\ recovery_start_time # None
           /\ probe'.time - recovery_start_time > RECOVERY_TIMEOUT_MS)
          => /\ probe'.timed_out
             /\ ~probe'.recovered
             /\ recovery_check_timer' = Null
             /\ lost_port_info' = Null
             /\ lost_port_config' = <<>>
             /\ recovery_start_time' = None
             /\ port_stable_time' = None
             /\ ~last_port_state'
             /\ serial_port' = serial_port
             /\ open_ports' = open_ports
             /\ readers' = readers
             /\ btn_connect' # BTN_DETECTING
             /\ serial_port' = Null => btn_connect' = BTN_OPEN
       /\ recovery_check_timer = Null =>
             /\ probe' = probe
             /\ serial_port' # serial_port => btn_connect # BTN_DETECTING
      ]_vars

\* a recovery abandoned by the timeout, the device never seen by a probe tick
C12_Witness ==
    /\ probe.timed_out
    /\ ~probe.port_exists
    /\ ~probe.flapped
    /\ probe.time > RECOVERY_TIMEOUT_MS
    /\ recovery_check_timer = Null
    /\ lost_port_info = Null
    /\ serial_port = Null
    /\ btn_connect = BTN_OPEN

(***************************************************************************)
(* The connection lifecycle with the user at work: ports and parameters    *)
(* chosen, presets configured, the port opened and closed by hand, bytes   *)
(* received before and after a loss.                                       *)
(***************************************************************************)
\* the user picks another entry of combo_port
select_port(port) ==
    /\ UNCHANGED <<last_extract, consumerVars, auxVars>>
    /\ window = WINDOW_OPEN
    /\ port # combo_port
    /\ combo_port' = port
    /\ UNCHANGED <<syncAll, grouperVars, clock, recoveryVars, serial_thread, plot_timer,
                   presetVars, combo_baudrate, port_baudrate, open_ports, readers,
                   reconnected_at, attempts, window, lost_port_config, lost_port_baudrate>>

\* open_serial_params_dialog accepted with another baud rate
open_serial_params_dialog(baudrate) ==
    /\ UNCHANGED <<last_extract, consumerVars, auxVars>>
    /\ window = WINDOW_OPEN
    /\ baudrate # combo_baudrate
    /\ combo_baudrate' = baudrate
    /\ UNCHANGED <<syncAll, grouperVars, clock, recoveryVars, serial_thread, plot_timer,
                   presetVars, combo_port, port_baudrate, open_ports, readers,
                   reconnected_at, attempts, window, lost_port_config, lost_port_baudrate>>

\* preset_timers[index].stop() left out
stop_sender_never(timers, index) == timers

\* preset_timers[index].stop()
stop_sender(timers, index) == [timers EXCEPT ![index] = None]

\* the two "if ... isActive(): preset_timers[index].stop()" of
\* send_preset_command
stop_if_active(timers, index) ==
    IF timers[index] # None THEN stop_sender(timers, index) ELSE timers

\* send_preset_command: a tick of preset_timers[index] or a click on preset
\* button index; write_ok tells whether serial_port.write succeeds.  The
\* preset is configured with a command (a missing preset or an empty command
\* returns before the write with the port open and the timer left alone);
\* last_tx records which preset's command went out.
send_preset_command(index, write_ok) ==
    /\ UNCHANGED <<last_extract, consumerVars, last_crc, parse_run, last_append>>
    /\ window = WINDOW_OPEN
    /\ index \in DOMAIN preset_timers
    /\ index <= Len(preset_commands)
    /\ IF serial_port = Null
       THEN /\ preset_timers' = stop_if_active(preset_timers, index)
            /\ last_tx' = [called |-> TRUE, sender |-> index, open |-> FALSE,
                           written |-> <<>>]
       ELSE IF write_ok
       THEN /\ preset_timers' = preset_timers
            /\ last_tx' = [called |-> TRUE, sender |-> index, open |-> TRUE,
                           written |-> <<preset_commands[index]>>]
       ELSE /\ preset_timers' = stop_if_active(preset_timers, index)
            /\ last_tx' = [called |-> TRUE, sender |-> index, open |-> TRUE,
                           written |-> <<>>]
    /\ UNCHANGED <<syncAll, grouperVars, clock, recoveryVars, serial_thread, plot_timer,
                   preset_commands, comboVars, port_baudrate, open_ports, readers,
                   reconnected_at, attempts, window, lost_port_config, lost_port_baudrate>>

\* the clock of the lifecycle scenarios stops here
SessionMaxClock == 3000

\* the probe ticks of the lifecycle scenarios that are looked at: every fifth
\* and every tenth tick of the 100 ms timer
SessionTickDelays == {5 * RECOVERY_TICK_MS, 10 * RECOVERY_TICK_MS}

\* bytes per read of the reader thread in the lifecycle scenarios
SessionChunk == 21

InitSession == AppInit(<<>>, <<>>, <<>>)

SessionTick ==
    \E dt \in SessionTickDelays : \E port_exists, open_ok \in BOOLEAN :
        /\ clock + dt <= SessionMaxClock
        /\ check_port_recovery(clock + dt, port_exists, open_ok)

SelectPort == \E port \in Ports : select_port(port)

SetBaudrate == \E baudrate \in Baudrates : open_serial_params_dialog(baudrate)

\* timer.timeout of preset_timers[index]: only a running timer ticks
SendPreset ==
    \E index \in DOMAIN preset_timers : \E write_ok \in BOOLEAN :
        /\ preset_timers[index] # None
        /\ send_preset_command(index, write_ok)

\* btn.clicked of preset_buttons[index]
ClickPreset ==
    \E index \in DOMAIN preset_timers : \E write_ok \in BOOLEAN :
        /\ preset_timers[index] = None
        /\ send_preset_command(index, write_ok)

NextSession ==
    \/ ReadError
    \/ ConnectionLost
    \/ SessionTick
    \/ ToggleSerial
    \/ SelectPort
    \/ SetBaudrate
    \/ SendPreset
    \/ CloseEvent

SpecSession == InitSession /\ [][NextSession]_vars

(***************************************************************************)
(* Bytes received before a loss and after the reconnect.                   *)
(***************************************************************************)
\* the device sends a sum-checked frame and a default frame
SessionFrames == <<SumFrame, DefaultFrame>>

InitReconnect ==
    AppInit(get_data("S", <<85>>, 4, <<>>, "sum", TRUE),
            ConcatAll(SessionFrames, 1), SessionFrames)

ReceiveSession == SessionChunk <= Len(wire) /\ Receive(SessionChunk, 0)

\* the bytes the device sends while no port is open are lost
Outage ==
    /\ window = WINDOW_OPEN
    /\ serial_port = Null
    /\ SessionChunk <= Len(wire)
    /\ wire' = Drop(wire, SessionChunk)
    /\ UNCHANGED <<syncVars, sent, grouperVars, clock, recoveryVars, lifecycleVars,
                   last_extract, consumerVars, auxVars>>

NextReconnect ==
    \/ ReceiveSession
    \/ Outage
    \/ ReadError
    \/ ConnectionLost
    \/ SessionTick
    \/ ToggleSerial
    \/ CloseEvent

SpecReconnect == InitReconnect /\ [][NextReconnect]_vars

\* C13: under every interleaving of manual open and close, connection losses,
\* probe ticks and reconnect attempts, the process holds at most one serial
\* port open and runs at most one reader thread, and these are the ones
\* serial_port and serial_thread refer to.
C13_OneByteSource ==
    /\ Cardinality(open_ports) <= 1
    /\ Cardinality(readers) <= 1
    /\ open_ports \subseteq {serial_port}
    /\ readers \subseteq {serial_thread}

\* C14: a step that closes the connection by hand (close_serial) leaves no
\* periodic sender timer and no recovery probe timer active, also when a
\* recovery started by an earlier connection loss is still probing.
C14_CloseCancelsTimers ==
    [][(/\ serial_port # Null
        /\ serial_port' = Null
        /\ btn_connect' = BTN_OPEN)
       => /\ preset_timers' = AllStopped
          /\ recovery_check_timer' = Null]_vars

\* the buffers of the custom synchronizers, in registry order
BuffersOf(parsers) == [i \in DOMAIN parsers |-> parsers[i].buffer]

\* C15: every step that is not a delivery of received bytes (on_connection_lost,
\* a probe tick with or without recover_connection and stop_recovery_check,
\* close_serial, open_serial, closeEvent) leaves the buffer of the default
\* synchronizer and the buffer of every custom synchronizer unchanged.
C15_BuffersSurvive ==
    [][rx_calls' = rx_calls =>
          /\ parser_buffer' = parser_buffer
          /\ BuffersOf(protocol_parsers') = BuffersOf(protocol_parsers)]_vars

\* reconnected by recover_connection after a loss, part of a frame received
\* before the loss held by the default synchronizer and bytes held by the
\* custom one
C15_Witness ==
    /\ probe.recovered
    /\ serial_port # Null
    /\ attempts = 1
    /\ rx_count = SessionChunk
    /\ reconnected_at = SessionChunk
    /\ Len(parser_buffer) > 0
    /\ Len(protocol_parsers[1].buffer) > 0

\* C16: no emitted frame is made of bytes received before a connection loss
\* together with bytes received after recover_connection reopened the port.
C16_NoFrameAcrossReconnect ==
    \A k \in DOMAIN emitted :
        ~(/\ emitted[k].pos[1] < reconnected_at
          /\ emitted[k].pos[Len(emitted[k].pos)] >= reconnected_at)

\* the preset_states of the snapshot name the preset at index i
Snapshotted(i) == \E k \in DOMAIN lost_port_config[1] : lost_port_config[1][k][1] = i

\* C17: a recover_connection that opens the port leaves active exactly the
\* periodic sender timers of the snapshot, each with the interval
\* round(period * 1000) ms of the snapshotted preset, has opened the snapshotted
\* port with the snapshotted parameters, and has cleared the snapshot.
C17_RestoresSnapshot ==
    [][(attempts' = attempts + 1 /\ btn_connect' = BTN_CLOSE)
       => /\ \A i \in DOMAIN preset_timers :
                 /\ preset_timers'[i] # None <=> Snapshotted(i)
                 /\ \A k \in DOMAIN lost_port_config[1] :
                        lost_port_config[1][k][1] = i =>
                            preset_timers'[i] = lost_port_config[1][k][2].period
          /\ serial_port' = lost_port_info
          /\ port_baudrate' = lost_port_baudrate
          /\ lost_port_info' = Null
          /\ lost_port_config' = <<>>]_vars

\* C18: in every reachable state lost_port_info is set if and only if the
\* recovery probe timer is active; a reconnect attempt, a probe tick past the
\* 10 s timeout and the close of the application each leave it cleared.
C18_SnapshotWhileProbing ==
    /\ [](lost_port_info # Null <=> recovery_check_timer = TIMER_ACTIVE)
    /\ [][/\ attempts' = attempts + 1 => lost_port_info' = Null
          /\ (probe' # probe /\ probe'.timed_out) => lost_port_info' = Null
          /\ window' = WINDOW_CLOSED => lost_port_info' = Null]_vars

\* the application closed while a recovery was probing
C18_Witness ==
    /\ window = WINDOW_CLOSED
    /\ probe.observed
    /\ ~probe.recovered
    /\ attempts = 0
    /\ lost_port_info = Null
    /\ recovery_check_timer = Null
    /\ btn_connect = BTN_OPEN
    /\ serial_port = Null

\* C19: right after on_connection_lost has handled the loss of an open
\* connection, the snapshot holds the port and the parameters of that
\* connection and exactly the periodic senders that were active, every sender
\* timer and the plot timer are stopped, the reader is stopped, the port is
\* closed, and the probe timer runs with the stabilization state reset.
C19_EnteringProbing ==
    [][(lost_signal /\ ~lost_signal' /\ serial_port # Null)
       => /\ lost_port_info' = serial_port
          /\ lost_port_baudrate' = port_baudrate
          /\ Len(lost_port_config') = 1
          /\ \A i \in DOMAIN preset_timers :
                 preset_timers[i] # None <=>
                     \E k \in DOMAIN lost_port_config'[1] :
                         lost_port_config'[1][k] = <<i, preset_commands[i]>>
          /\ \A k \in DOMAIN lost_port_config'[1] :
                 preset_timers[lost_port_config'[1][k][1]] # None
          /\ preset_timers' = AllStopped
          /\ ~plot_timer'
          /\ serial_thread' = Null
          /\ serial_thread \notin readers'
          /\ serial_port' = Null
          /\ serial_port \notin open_ports'
          /\ recovery_check_timer' = TIMER_ACTIVE
          /\ recovery_start_time' = clock'
          /\ port_stable_time' = None
          /\ ~last_port_state']_vars

(***************************************************************************)
(* Field extraction, exercised call by call.                               *)
(***************************************************************************)
\* spin_byte_count.setRange(1, 8)
BYTE_COUNT_MAX == 8

\* the frames handed to the extractors are at most this long
MaxFrameLen == 9

\* CurveDialog.get_data / CustomDisplayDialog.get_data: bit mode forces a
\* byte count of 1; coefficient, divisor and offset in ten-thousandths
FieldConfig(start, count, dtype, bit_mode, bit_index, scale) ==
    [start_byte |-> start, byte_count |-> IF bit_mode THEN 1 ELSE count,
     data_type |-> dtype, bit_mode |-> bit_mode, bit_index |-> bit_index,
     coefficient |-> scale[1], divisor |-> scale[2], offset |-> scale[3]]

\* the descriptors the dialogs produce
FieldConfigs ==
    { FieldConfig(start, count, dtype, FALSE, 0, scale) :
        start \in 0..MaxFrameLen, count \in 1..BYTE_COUNT_MAX,
        dtype \in CurveTypes \cup {"string (ASCII)"},
        scale \in {<<10000, 10000, 0>>, <<10000, 6000000, -5000>>} }
      \cup { FieldConfig(start, 1, "uint16 (LE)", TRUE, bit_index, <<10000, 10000, 0>>) :
                start \in 0..MaxFrameLen, bit_index \in {0, 7} }

\* frames of every length up to MaxFrameLen, of mixed bytes and of FF bytes
FieldFrames ==
    { [i \in 1..n |-> (i * 85 + 43) % 256] : n \in 0..MaxFrameLen }
        \cup { [i \in 1..MaxFrameLen |-> 255] }

InitExtract == AppInit(<<>>, <<>>, <<>>)

\* update_plot hands a frame to parse_value_from_frame
ExtractCurve ==
    /\ ~last_extract.called
    /\ \E frame \in FieldFrames : \E config \in FieldConfigs :
        /\ last_extract' = [called |-> TRUE, consumer |-> "curve", frame |-> frame,
                            config |-> config,
                            result |-> parse_value_from_frame(frame, config)]
        /\ UNCHANGED <<syncVars, grouperVars, clock, wire, sent, recoveryVars,
                       lifecycleVars, consumerVars, auxVars>>

\* update_custom_displays hands a frame to parse_custom_display_data
ExtractDisplay ==
    /\ ~last_extract.called
    /\ \E frame \in FieldFrames : \E config \in FieldConfigs :
        /\ ~config.bit_mode
        /\ last_extract' = [called |-> TRUE, consumer |-> "display", frame |-> frame,
                            config |-> config,
                            result |-> parse_custom_display_data(frame, config)]
        /\ UNCHANGED <<syncVars, grouperVars, clock, wire, sent, recoveryVars,
                       lifecycleVars, consumerVars, auxVars>>

NextExtract ==
    \/ ExtractCurve
    \/ ExtractDisplay

SpecExtract == InitExtract /\ [][NextExtract]_vars

\* the data type is one the consumer decodes and the byte count covers it
ValidTypeWidth(x) ==
    /\ x.config.data_type \in (IF x.consumer = "curve" THEN CurveTypes ELSE DisplayTypes)
    /\ \/ x.config.bit_mode
       \/ x.config.data_type = "string (ASCII)"
       \/ x.config.byte_count >= type_size(x.config.data_type)

\* C20: an extraction with start + width > len(frame) gives the failure marker
\* (no value, no exception); an extraction with start + width <= len(frame) and
\* a valid type and width gives a value.
C20_ExtractionBounds ==
    last_extract.called =>
        /\ last_extract.config.start_byte + last_extract.config.byte_count
              > Len(last_extract.frame) => last_extract.result = <<>>
        /\ (/\ last_extract.config.start_byte + last_extract.config.byte_count
                  <= Len(last_extract.frame)
            /\ ValidTypeWidth(last_extract)) => Len(last_extract.result) = 1

\* the data types the consumer of extraction x decodes
DecodedTypes(x) == IF x.consumer = "curve" THEN CurveTypes ELSE DisplayTypes

\* C40: an extraction whose data type the consumer's extractor does not decode,
\* or whose byte count is below the size of the type, gives the failure
\* marker, and the curve path and the display path fail on the same
\* descriptors of the scalar types, float64 included.
C40_UnsupportedFails ==
    (last_extract.called /\ ~last_extract.config.bit_mode) =>
        LET x == last_extract
            dtype == x.config.data_type
        IN  /\ (\/ dtype \notin DecodedTypes(x)
                \/ dtype # "string (ASCII)" /\ x.config.byte_count < type_size(dtype))
                   => x.result = <<>>
            /\ dtype \in CurveTypes =>
                   (parse_value_from_frame(x.frame, x.config) = <<>>
                       <=> parse_custom_display_data(x.frame, x.config) = <<>>)

\* a two-byte field that ends one byte past the end of the frame
C20_Witness ==
    /\ last_extract.called
    /\ last_extract.consumer = "curve"
    /\ last_extract.config.data_type = "uint16 (LE)"
    /\ last_extract.config.byte_count = 2
    /\ last_extract.config.start_byte + 1 = Len(last_extract.frame)
    /\ last_extract.result = <<>>

(***************************************************************************)
(* The consumers of the emitted frames: the curves of the plot canvas and  *)
(* the custom display windows, configured while frames arrive.             *)
(***************************************************************************)
\* configure_single_curve, the dialog accepted with data for an existing curve:
\* set_curve_configs clears every curve's values
configure_single_curve(index, data) ==
    /\ index < Len(curve_configs)
    /\ curve_configs' = [curve_configs EXCEPT ![index + 1] = data]
    /\ curve_data' = cleared(curve_configs')
    /\ UNCHANGED <<is_curve_recording, custom_displays, custom_display_labels>>
    /\ UNCHANGED <<syncVars, grouperVars, clock, wire, sent, recoveryVars,
                   lifecycleVars, last_extract, auxVars>>

\* configure_custom_display, the dialog accepted with data: the label shows the
\* name and "--" until a value arrives
configure_custom_display(index, data) ==
    /\ index < Len(custom_displays)
    /\ custom_displays' = [custom_displays EXCEPT ![index + 1] = <<data>>]
    /\ custom_display_labels' = [custom_display_labels EXCEPT ![index + 1] = <<>>]
    /\ UNCHANGED <<is_curve_recording, curve_configs, curve_data>>
    /\ UNCHANGED <<syncVars, grouperVars, clock, wire, sent, recoveryVars,
                   lifecycleVars, last_extract, auxVars>>

\* start_curve_recording with the port open (with the port closed it first runs
\* open_serial): clear_data, then the flag
start_curve_recording ==
    /\ ~is_curve_recording
    /\ serial_port # Null
    /\ curve_data' = cleared(curve_configs)
    /\ is_curve_recording' = TRUE
    /\ UNCHANGED <<curve_configs, custom_displays, custom_display_labels>>
    /\ UNCHANGED <<syncVars, grouperVars, clock, wire, sent, recoveryVars,
                   lifecycleVars, last_extract, auxVars>>

\* finish_curve_recording: the values are exported and kept
finish_curve_recording ==
    /\ is_curve_recording
    /\ is_curve_recording' = FALSE
    /\ UNCHANGED <<curve_configs, curve_data, custom_displays, custom_display_labels>>
    /\ UNCHANGED <<syncVars, grouperVars, clock, wire, sent, recoveryVars,
                   lifecycleVars, last_extract, auxVars>>

\* definition S with frames of four and of three bytes
ConsumeProtocols ==
    { get_data("S", <<85>>, 4, <<>>, "sum", TRUE),
      get_data("S", <<85>>, 3, <<>>, "sum", TRUE) }

\* the device sends a four-byte frame of S, a three-byte frame of S, a frame of
\* the default protocol and a four-byte frame of S
ConsumeFrames == <<<<85, 1, 2, 88>>, <<85, 3, 88>>, DefaultFrame, <<85, 0, 0, 85>>>>

\* what the curve dialog is accepted with
CurveInputs ==
    { CurveConfig("S", 2, 2, "uint16 (LE)", FALSE, 0, <<10000, 10000, 0>>),
      CurveConfig("S", 1, 1, "uint8", FALSE, 0, <<10000, 10000, 0>>),
      CurveConfig("S", 3, 1, "uint8", TRUE, 0, <<10000, 10000, 0>>) }

\* what the display dialog is accepted with
DisplayInputs ==
    { DisplayConfig("S", 2, 2, "uint16 (LE)", <<10000, 10000, 0>>, TRUE),
      DisplayConfig("S", 1, 4, "uint32 (LE)", <<10000, 10000, 0>>, TRUE),
      DisplayConfig(Null, 2, 2, "uint16 (LE)", <<10000, 10000, 0>>, TRUE) }

InitConsume ==
    AppInit(get_data("S", <<85>>, 4, <<>>, "sum", TRUE),
            ConcatAll(ConsumeFrames, 1), ConsumeFrames)

\* the reader hands over the device's next frame in one piece
ReceiveConsume ==
    \E n \in DOMAIN ConsumeFrames :
        /\ Len(ConcatAll(Take(ConsumeFrames, n - 1), 1)) = rx_count
        /\ Receive(Len(ConsumeFrames[n]), POLL_MS)

EditLength == \E data \in ConsumeProtocols : edit_protocol(0, data)

ConfigureCurve == \E data \in CurveInputs : configure_single_curve(0, data)

ConfigureDisplay == \E data \in DisplayInputs : configure_custom_display(0, data)

StartRecording == start_curve_recording

FinishRecording == finish_curve_recording

NextConsume ==
    \/ ReceiveConsume
    \/ EditLength
    \/ ConfigureCurve
    \/ ConfigureDisplay
    \/ StartRecording
    \/ FinishRecording

SpecConsume == InitConsume /\ [][NextConsume]_vars

\* the call emitted exactly one frame
OneResult == rx_calls' = rx_calls + 1 /\ Len(emitted') = Len(emitted) + 1

\* the frame the call emitted
TheResult == emitted'[Len(emitted')]

\* the curve reads the emitted frame's protocol and the extraction fails
CurveFails(i) ==
    /\ is_curve_recording
    /\ curve_configs[i].protocol = protocol_name_of(TheResult)
    /\ parse_value_from_frame(TheResult.frame, curve_configs[i]) = <<>>

\* the display reads the emitted frame's protocol and the extraction fails
DisplayFails(i) ==
    /\ custom_displays[i] # <<>>
    /\ custom_displays[i][1].enabled
    /\ custom_displays[i][1].protocol = protocol_name_of(TheResult)
    /\ parse_custom_display_data(TheResult.frame, custom_displays[i][1]) = <<>>

\* two values are the same number
SameValue(a, b) == a.scale = b.scale /\ a.raw = b.raw

\* C21: when the extraction of a field from a frame of the matching protocol
\* fails, the consumer's prior value persists: a curve that holds a value shows
\* the same value after the frame, and a display's label is left as it was.
C21_FailureKeepsValue ==
    [][OneResult =>
        /\ \A i \in DOMAIN curve_configs :
              (CurveFails(i) /\ curve_data[i] # <<>>) =>
                  SameValue(curve_data'[i][Len(curve_data'[i])],
                            curve_data[i][Len(curve_data[i])])
        /\ \A i \in DOMAIN custom_displays :
              DisplayFails(i) => custom_display_labels'[i] = custom_display_labels[i]
      ]_vars

(***************************************************************************)
(* Integer decoding: one frame handed to a curve and to a display window   *)
(* that read the same field.                                               *)
(***************************************************************************)
\* the integer data types both dialogs offer
IntegerTypes ==
    {"uint8", "int8", "uint16 (LE)", "uint16 (BE)", "int16 (LE)", "int16 (BE)",
     "uint32 (LE)", "uint32 (BE)", "int32 (LE)", "int32 (BE)"}

\* the byte values of the decoded frames: the ends and the sign boundary
DecodeBytes == {0, 1, 127, 128, 255}

\* four-byte frames
DecodeFrames == [1..4 -> DecodeBytes]

InitDecode == AppInit(<<>>, <<>>, <<>>)

\* on_data_received hands the frame to add_data (parse_value_from_frame) and to
\* parse_custom_display_data; coefficient 1, divisor 1, offset 0
DecodeInteger ==
    /\ ~last_extract.called
    /\ \E frame \in DecodeFrames : \E dtype \in IntegerTypes :
        LET config == CurveConfig(Null, 0, type_size(dtype), dtype, FALSE, 0,
                                  <<10000, 10000, 0>>)
        IN  /\ last_extract' =
                  [called |-> TRUE, consumer |-> "both", frame |-> frame,
                   config |-> config,
                   result |-> parse_value_from_frame(frame, config),
                   display_result |-> parse_custom_display_data(frame, config)]
            /\ UNCHANGED <<syncVars, grouperVars, clock, wire, sent, recoveryVars,
                           lifecycleVars, consumerVars, auxVars>>

NextDecode == DecodeInteger

SpecDecode == InitDecode /\ [][NextDecode]_vars

\* v reduced to the two's-complement range of the given number of bits
TwosComplement(v, bits) == IF v >= 2 ^ (bits - 1) THEN v - 2 ^ bits ELSE v

\* the value the rule gives for the first bytes b of a frame
Reference(dtype, b) ==
    CASE dtype = "uint8" -> b[1]
      [] dtype = "int8" -> TwosComplement(b[1], 8)
      [] dtype = "uint16 (LE)" -> b[1] + 256 * b[2]
      [] dtype = "uint16 (BE)" -> 256 * b[1] + b[2]
      [] dtype = "int16 (LE)" -> TwosComplement(b[1] + 256 * b[2], 16)
      [] dtype = "int16 (BE)" -> TwosComplement(256 * b[1] + b[2], 16)
      [] dtype = "uint32 (LE)" -> [hi |-> b[3] + 256 * b[4], lo |-> b[1] + 256 * b[2]]
      [] dtype = "uint32 (BE)" -> [hi |-> 256 * b[1] + b[2], lo |-> 256 * b[3] + b[4]]
      [] dtype = "int32 (LE)" ->
            b[1] + 256 * b[2] + 65536 * b[3] + 16777216 * TwosComplement(b[4], 8)
      [] dtype = "int32 (BE)" ->
            16777216 * TwosComplement(b[1], 8) + 65536 * b[2] + 256 * b[3] + b[4]

\* C22: every integer type decodes to the value its byte order and sign give
\* (uint16-LE to b0 + 256*b1, uint16-BE to 256*b0 + b1, int16 to the same reduced
\* to [-32768, 32767], 8 and 32 bits alike), and the curve extractor and the
\* display extractor give the same value.
C22_Endianness ==
    (last_extract.called /\ last_extract.consumer = "both") =>
        /\ Len(last_extract.result) = 1
        /\ last_extract.result[1].raw
              = Reference(last_extract.config.data_type, last_extract.frame)
        /\ last_extract.display_result = last_extract.result

\* FF FF decoded as int16 (LE) gave -1
C22_Witness ==
    /\ last_extract.called
    /\ last_extract.consumer = "both"
    /\ last_extract.config.data_type = "int16 (LE)"
    /\ last_extract.frame[1] = 255 /\ last_extract.frame[2] = 255
    /\ last_extract.result = <<Scaled(-1, last_extract.config)>>
    /\ last_extract.display_result = last_extract.result

(***************************************************************************)
(* Bit mode: a frame handed to a curve whose descriptor is in bit mode.    *)
(* The descriptors are those of the curve dialog (byte count 1) and those  *)
(* of an imported configuration file, which load_config passes to          *)
(* set_curve_configs as they are.                                          *)
(***************************************************************************)
\* the frames are at most this long
MaxBitFrameLen == 3

\* a curve_configs entry of a configuration file
LoadedCurve(start, count, dtype, bit_mode, bit_index, scale) ==
    [protocol |-> Null, start_byte |-> start, byte_count |-> count,
     data_type |-> dtype, bit_mode |-> bit_mode, bit_index |-> bit_index,
     coefficient |-> scale[1], divisor |-> scale[2], offset |-> scale[3]]

\* bit-mode descriptors of every byte count the spin box allows in a file, with
\* and without a scaling
BitConfigs ==
    { LoadedCurve(start, count, dtype, TRUE, bit_index, scale) :
        start \in 0..MaxBitFrameLen, count \in {1, 2, BYTE_COUNT_MAX},
        dtype \in {"uint16 (LE)", "float (BE)"}, bit_index \in 0..7,
        scale \in {<<10000, 10000, 0>>, <<20000, 6000000, 50000>>} }

\* frames of the bytes 00, 4B and FF
BitFrames == UNION { [1..n -> {0, 75, 255}] : n \in 0..MaxBitFrameLen }

InitBits == AppInit(<<>>, <<>>, <<>>)

\* add_data hands a frame to parse_value_from_frame for a bit-mode curve
ExtractBit ==
    /\ ~last_extract.called
    /\ \E frame \in BitFrames : \E config \in BitConfigs :
        /\ last_extract' = [called |-> TRUE, consumer |-> "bit", frame |-> frame,
                            config |-> config,
                            result |-> parse_value_from_frame(frame, config)]
        /\ UNCHANGED <<syncVars, grouperVars, clock, wire, sent, recoveryVars,
                       lifecycleVars, consumerVars, auxVars>>

NextBits == ExtractBit

SpecBits == InitBits /\ [][NextBits]_vars

\* the extraction gave bit k (LSB = 0) of frame[start], unscaled
GaveTheBit(x) ==
    x.result = <<Float((x.frame[x.config.start_byte + 1]
                          \div (2 ^ x.config.bit_index)) % 2)>>

\* C23 as stated: in bit mode with start < len(frame) the extractor returns bit
\* k of frame[start] as 0 or 1, unscaled, whatever the configured byte width and
\* scalar type.
C23_BitModeAnyWidth ==
    (last_extract.called /\ last_extract.config.bit_mode
        /\ last_extract.config.start_byte < Len(last_extract.frame))
      => GaveTheBit(last_extract)

\* C23 amended: in bit mode with start + configured byte width <= len(frame)
\* the extractor returns bit k of frame[start] as 0 or 1, unscaled, whatever the
\* scalar type; with start + configured byte width > len(frame) it returns the
\* failure marker.
C23_BitModeWithinWidth ==
    (last_extract.called /\ last_extract.config.bit_mode) =>
        IF last_extract.config.start_byte + last_extract.config.byte_count
              <= Len(last_extract.frame)
        THEN GaveTheBit(last_extract)
        ELSE last_extract.result = <<>>

\* bit 6 of 4B, read through a scaled two-byte float descriptor, gave 1
C23_Witness ==
    /\ last_extract.called
    /\ last_extract.config.bit_mode
    /\ last_extract.config.bit_index = 6
    /\ last_extract.config.byte_count = 2
    /\ last_extract.config.data_type = "float (BE)"
    /\ last_extract.config.offset = 50000
    /\ last_extract.frame = <<0, 75, 0>>
    /\ last_extract.config.start_byte = 1
    /\ last_extract.result = <<Float(1)>>

(***************************************************************************)
(* The RX display grouper: chunks arrive with short and long gaps, the     *)
(* 50 ms watchdog ticks and the user changes the frame interval.           *)
(***************************************************************************)
\* self.rx_flush_timer.start(50)
WATCHDOG_MS == 50

\* the watchdog tick that leaves the buffer alone
flush_rx_buffer_idle(now) ==
    /\ now >= clock
    /\ clock' = now
    /\ UNCHANGED <<grouperVars, syncVars, wire, sent, recoveryVars, lifecycleVars,
                   last_extract, consumerVars, auxVars>>

\* flush_rx_buffer, run by rx_flush_timer when datetime.now() reads now
flush_rx_buffer(now) ==
    /\ now >= clock
    /\ clock' = now
    /\ IF /\ Len(rx_buffer) > 0
          /\ last_rx_time # None
          /\ now - last_rx_time >= frame_interval_ms
         THEN /\ display' = Append(display, rx_buffer)
              /\ rx_buffer' = <<>>
              /\ last_rx_time' = None
         ELSE UNCHANGED <<display, rx_buffer, last_rx_time>>
    /\ UNCHANGED <<frame_interval_ms, syncVars, wire, sent, recoveryVars,
                   lifecycleVars, last_extract, consumerVars, auxVars>>

\* on_frame_interval_changed
on_frame_interval_changed(value) ==
    /\ frame_interval_ms' = value
    /\ UNCHANGED <<rx_buffer, last_rx_time, display, clock, syncVars, wire, sent,
                   recoveryVars, lifecycleVars, last_extract, consumerVars, auxVars>>

\* the values the user sets spin_frame_interval to
GrouperIntervals == {WATCHDOG_MS, FRAME_INTERVAL_DEFAULT, 2 * FRAME_INTERVAL_DEFAULT}

\* the time between two handlers
GrouperGaps == {0, POLL_MS, WATCHDOG_MS, FRAME_INTERVAL_DEFAULT}

\* chunks arrive until this time
GrouperRxMaxClock == 200

\* the watchdog is followed for the longest interval and one tick more
GrouperMaxClock == GrouperRxMaxClock + 2 * FRAME_INTERVAL_DEFAULT + WATCHDOG_MS

\* the bytes the device sends
GrouperWire == <<1, 2, 3, 4>>

InitGrouper == AppInit(<<>>, GrouperWire, <<>>)

ReceiveGrouper ==
    \E k \in 1..2 : \E dt \in GrouperGaps :
        /\ clock + dt <= GrouperRxMaxClock
        /\ Receive(k, dt)

WatchdogTick ==
    \E dt \in {POLL_MS, WATCHDOG_MS} :
        /\ clock + dt <= GrouperMaxClock
        /\ flush_rx_buffer(clock + dt)

ChangeInterval ==
    \E value \in GrouperIntervals :
        /\ value # frame_interval_ms
        /\ on_frame_interval_changed(value)

NextGrouper ==
    \/ ReceiveGrouper
    \/ WatchdogTick
    \/ ChangeInterval

SpecGrouper == InitGrouper /\ [][NextGrouper]_vars

\* the watchdog timer keeps firing
SpecGrouperLive == SpecGrouper /\ WF_vars(WatchdogTick)

\* C24: on each received chunk, with no prior timestamp or a gap >= the
\* threshold, a non-empty buffer is emitted as one unit and the buffer then holds
\* exactly the chunk; otherwise the chunk is appended and nothing is emitted; in
\* both cases the last-byte timestamp becomes the current time.
C24_GrouperRule ==
    [][rx_calls' = rx_calls + 1 =>
        /\ IF last_rx_time = None \/ clock' - last_rx_time >= frame_interval_ms
             THEN /\ display' = IF rx_buffer # <<>> THEN Append(display, rx_buffer)
                                 ELSE display
                  /\ rx_buffer' = ChunkTaken
             ELSE /\ display' = display
                  /\ rx_buffer' = rx_buffer \o ChunkTaken
        /\ last_rx_time' = clock'
      ]_vars

\* the second chunk came exactly one threshold after the first, which was
\* emitted as a unit of its own
C24_Witness ==
    /\ rx_calls = 2
    /\ clock = FRAME_INTERVAL_DEFAULT
    /\ frame_interval_ms = FRAME_INTERVAL_DEFAULT
    /\ last_rx_time = clock
    /\ display = <<<<1, 2>>>>
    /\ rx_buffer = <<3>>

\* the number of bytes emitted in logical units
DisplayedBytes == Len(ConcatAll(display, 1))

\* C25: with the watchdog ticking, every received byte is eventually emitted in
\* a logical unit although no further input arrives, and a buffer whose last
\* chunk is a threshold old does not stay non-empty.
C25_WatchdogLiveness ==
    /\ \A n \in 1..Len(GrouperWire) : (rx_count = n) ~> (DisplayedBytes >= n)
    /\ (/\ rx_buffer # <<>>
        /\ last_rx_time # None
        /\ clock - last_rx_time >= frame_interval_ms) ~> (rx_buffer = <<>>)

\* the last bytes were emitted by the watchdog
C25_Witness ==
    /\ wire = <<>>
    /\ rx_count = Len(GrouperWire)
    /\ rx_buffer = <<>>
    /\ last_rx_time = None
    /\ DisplayedBytes = Len(GrouperWire)
    /\ display[Len(display)] = <<4>>

(***************************************************************************)
(* The checksum functions applied to byte strings.                         *)
(***************************************************************************)
\* the byte strings are at most this long
MaxChecksumLen == 3

\* the ASCII string "123456789"
CheckString == <<49, 50, 51, 52, 53, 54, 55, 56, 57>>

\* byte strings over 00, 01, 55, 80, FF and the check string
ChecksumInputs ==
    UNION { [1..n -> {0, 1, 85, 128, 255}] : n \in 0..MaxChecksumLen }
        \cup {CheckString}

InitChecksum == AppInit(<<>>, <<>>, <<>>)

\* the five functions of CRCCalculator applied to data
ComputeChecksums ==
    /\ ~last_crc.called
    /\ \E data \in ChecksumInputs :
        /\ last_crc' = [called |-> TRUE, data |-> data,
                        ccitt |-> calculate_ccitt_crc16(data),
                        xmodem |-> calculate_crc16_xmodem(data),
                        modbus |-> calculate_modbus_crc16(data),
                        sum |-> calculate_sum_check(data),
                        xor |-> calculate_xor_check(data)]
        /\ UNCHANGED <<syncVars, grouperVars, clock, wire, sent, recoveryVars,
                       lifecycleVars, last_extract, consumerVars, last_tx, parse_run,
                       last_append>>

NextChecksum == ComputeChecksums

SpecChecksum == InitChecksum /\ [][NextChecksum]_vars

\* bit j (7 = most significant) of a byte
BitOf(byte, j) == (byte \div (2 ^ j)) % 2

\* the reference CRC with polynomial 1021, one message bit at a time, most
\* significant bit first: the register crc after k bits, carried to the end
RECURSIVE RefMsb(_, _, _)
RefMsb(data, k, crc) ==
    IF crc >= 0 /\ k < 8 * Len(data)
    THEN LET bit == BitOf(data[(k \div 8) + 1], 7 - (k % 8))
             shifted == (crc * 2) % 65536
         IN  RefMsb(data, k + 1,
                    IF (crc \div 32768) % 2 # bit THEN Xor(shifted, 4129) ELSE shifted)
    ELSE crc

\* the reference reflected CRC with polynomial A001, least significant bit first
RECURSIVE RefLsb(_, _, _)
RefLsb(data, k, crc) ==
    IF crc >= 0 /\ k < 8 * Len(data)
    THEN LET bit == BitOf(data[(k \div 8) + 1], k % 8)
             shifted == crc \div 2
         IN  RefLsb(data, k + 1,
                    IF crc % 2 # bit THEN Xor(shifted, 40961) ELSE shifted)
    ELSE crc

\* the sum of the bytes
RECURSIVE RefSum(_)
RefSum(data) == IF data = <<>> THEN 0 ELSE Head(data) + RefSum(Tail(data))

\* the XOR of the bytes, bit by bit
RefXor(data) ==
    LET Ones(j) == Cardinality({i \in DOMAIN data : BitOf(data[i], j) = 1})
        RECURSIVE Weigh(_)
        Weigh(j) == IF j > 7 THEN 0 ELSE (Ones(j) % 2) * (2 ^ j) + Weigh(j + 1)
    IN  Weigh(0)

\* C26: on the empty input CCITT gives FFFF, XMODEM 0000, Modbus FFFF, Sum8 0 and
\* Xor8 0; on every input each function equals its reference definition, the
\* 16-bit results lie in 0..FFFF and the 8-bit results in 0..FF; the check
\* string "123456789" gives 29B1, 31C3, 4B37, DD and 31.
C26_ChecksumVectors ==
    last_crc.called =>
        /\ last_crc.data = <<>> =>
              /\ last_crc.ccitt = 65535
              /\ last_crc.xmodem = 0
              /\ last_crc.modbus = 65535
              /\ last_crc.sum = 0
              /\ last_crc.xor = 0
        /\ last_crc.ccitt = RefMsb(last_crc.data, 0, 65535)
        /\ last_crc.xmodem = RefMsb(last_crc.data, 0, 0)
        /\ last_crc.modbus = RefLsb(last_crc.data, 0, 65535)
        /\ last_crc.sum = RefSum(last_crc.data) % 256
        /\ last_crc.xor = RefXor(last_crc.data)
        /\ {last_crc.ccitt, last_crc.xmodem, last_crc.modbus} \subseteq 0..65535
        /\ {last_crc.sum, last_crc.xor} \subseteq 0..255
        /\ last_crc.data = CheckString =>
              /\ last_crc.ccitt = 10673
              /\ last_crc.xmodem = 12739
              /\ last_crc.modbus = 19255
              /\ last_crc.sum = 221
              /\ last_crc.xor = 49

\* the five checksums of the empty input
C26_Witness ==
    /\ last_crc.called
    /\ last_crc.data = <<>>
    /\ last_crc.xmodem = 0
    /\ last_crc.ccitt = 65535

(***************************************************************************)
(* The time-calibration command.                                           *)
(***************************************************************************)
\* decimal_to_bcd that returns the value itself
decimal_to_bcd_plain(decimal_value) == decimal_value

\* decimal_to_bcd
decimal_to_bcd(decimal_value) ==
    (((decimal_value \div 10) % 16) * 16) + ((decimal_value % 10) % 16)

\* the fixed head of the command
CALIBRATE_PREFIX == <<6, 0, 16, 36, 8>>

\* the packet calibrate_time builds from datetime.now()
calibrate_packet(now) ==
    LET data == CALIBRATE_PREFIX
                  \o <<decimal_to_bcd(now.year % 100), decimal_to_bcd(now.month),
                        decimal_to_bcd(now.day), decimal_to_bcd(now.hour),
                        decimal_to_bcd(now.minute), decimal_to_bcd(now.second)>>
        crc == calculate_crc16_xmodem(data)
    IN  data \o <<crc % 256, (crc \div 256) % 256>>

\* calibrate_time when datetime.now() reads now; write_ok is whether
\* serial_port.write returns (an exception is caught and reported). The TX line
\* of the data display is not an RX unit.
calibrate_time(now, write_ok) ==
    /\ window = WINDOW_OPEN
    /\ last_tx' = [called |-> TRUE, now |-> now, open |-> serial_port # Null,
                   written |-> IF serial_port # Null /\ write_ok
                               THEN <<calibrate_packet(now)>> ELSE <<>>]
    /\ UNCHANGED <<syncVars, grouperVars, clock, wire, sent, recoveryVars,
                   lifecycleVars, last_extract, consumerVars, last_crc, parse_run,
                   last_append>>

\* the years of the calibrated clocks: every value of year mod 100
CalibrateYears == 2000..2099

\* the date-times datetime.now() returns: the last second of every year, and
\* the first and last month, day, hour and second of one year
DateTimes ==
    [year : CalibrateYears, month : {12}, day : {31}, hour : {23},
     minute : {59}, second : {59}]
        \cup [year : {2024}, month : {1, 12}, day : {1, 31}, hour : {0, 23},
              minute : {0}, second : {0, 59}]

InitCalibrate == AppInit(<<>>, <<>>, <<>>)

CalibrateTime ==
    \E now \in DateTimes : \E write_ok \in BOOLEAN : calibrate_time(now, write_ok)

NextCalibrate ==
    \/ CalibrateTime
    \/ ToggleSerial

SpecCalibrate == InitCalibrate /\ [][NextCalibrate]_vars

\* tens digit in the high nibble, ones digit in the low nibble
IsBcdOf(byte, value) == byte \div 16 = value \div 10 /\ byte % 16 = value % 10

\* C27: the command written is 13 bytes: 06 00 10 24 08, the BCD bytes of year
\* mod 100, month, day, hour, minute and second, then the CRC16-XMODEM of the
\* first 11 bytes, low byte first; nothing is written while the port is not open.
C27_CalibrateCommand ==
    last_tx.called =>
        /\ ~last_tx.open => last_tx.written = <<>>
        /\ last_tx.written # <<>> =>
              LET data == last_tx.written[1]
                  now == last_tx.now
                  crc == RefMsb(Take(data, 11), 0, 0)
              IN  /\ Len(data) = 13
                  /\ Take(data, 5) = <<6, 0, 16, 36, 8>>
                  /\ IsBcdOf(data[6], now.year % 100)
                  /\ IsBcdOf(data[7], now.month)
                  /\ IsBcdOf(data[8], now.day)
                  /\ IsBcdOf(data[9], now.hour)
                  /\ IsBcdOf(data[10], now.minute)
                  /\ IsBcdOf(data[11], now.second)
                  /\ data[12] = crc % 256
                  /\ data[13] = crc \div 256

\* the command for 2099-12-31 23:59:59 was written
C27_Witness ==
    /\ last_tx.called
    /\ last_tx.open
    /\ last_tx.now = [year |-> 2099, month |-> 12, day |-> 31, hour |-> 23,
                      minute |-> 59, second |-> 59]
    /\ last_tx.written # <<>>
    /\ SubSeq(last_tx.written[1], 6, 11) = <<153, 18, 49, 35, 89, 89>>

(***************************************************************************)
(* Arbitrary streams: frames and garbage, handed over in any chunks.       *)
(***************************************************************************)
\* custom protocols with headers of one, two and three bytes
StreamProtocols ==
    { ProtocolConfig("H1", <<85>>, 3, <<>>, "none", TRUE),
      ProtocolConfig("H2", <<168, 85>>, 4, <<>>, "none", TRUE),
      ProtocolConfig("H3", <<168, 85, 0>>, 4, <<>>, "none", TRUE),
      ProtocolConfig("H2S", <<168, 85>>, 2, <<>>, "none", TRUE) }

\* the bytes of the short streams: 00 and the header bytes 55 and A8
StreamBytes == {0, 85, 168}

\* the short streams hold at most this many bytes
MaxStreamLen == 6

ShortStreams == UNION { [1..n -> StreamBytes] : n \in 1..MaxStreamLen }

\* n bytes 00
Zeros(n) == [i \in 1..n |-> 0]

\* a frame of the default protocol's length and header whose tail is wrong
BadTailFrame == FRAME_HEADER \o Zeros(FRAME_LENGTH - 2)

\* streams for the default synchronizer: frames of the default protocol after
\* and between garbage of about one frame length
DefaultStreams ==
    { Zeros(FRAME_LENGTH - 1) \o DefaultFrame,
      Zeros(FRAME_LENGTH) \o DefaultFrame,
      Zeros(FRAME_LENGTH + 2),
      DefaultFrame \o DefaultFrame,
      <<0, 168>> \o DefaultFrame \o <<168>>,
      BadTailFrame \o DefaultFrame }

\* the chunk sizes of the long streams
LongChunks == {1, FRAME_LENGTH - 1, FRAME_LENGTH, FRAME_LENGTH + 1}

InitStream ==
    \/ \E p \in StreamProtocols : \E stream \in ShortStreams :
           AppInit(<<p>>, stream, <<stream>>)
    \/ \E stream \in DefaultStreams : AppInit(<<>>, stream, <<stream>>)

\* the reader thread hands over a chunk: any size on a short stream, one of a
\* few sizes on a long one
ReceiveStream ==
    \E k \in 1..Len(wire) :
        /\ Len(sent[1]) > MaxStreamLen => (k \in LongChunks \/ k = Len(wire))
        /\ Receive(k, POLL_MS)

NextStream == ReceiveStream

SpecStream == InitStream /\ [][NextStream]_vars

\* the last n bytes of s, all of s when it is shorter
LastBytes(s, n) == SubSeq(s, Max(1, Len(s) - n + 1), Len(s))

\* C28: when parse() of a custom protocol with a header finds no header in a
\* buffer of at least frame-length bytes, it emits nothing and leaves exactly the
\* last header_length - 1 bytes of the buffer (none for a one-byte header).
C28_HeaderAbsentTrim ==
    [][rx_calls' = rx_calls + 1 =>
        \A i \in DOMAIN protocol_parsers :
            LET p == protocol_parsers[i]
                held == last_rx'.added[i]
            IN  (/\ Len(p.header) >= 1
                 /\ Len(held) >= p.length
                 /\ Find(held, p.header) = -1)
                  => /\ last_rx'.custom_results[i] = <<>>
                     /\ protocol_parsers'[i].buffer = LastBytes(held, Len(p.header) - 1)]_vars

\* C29: after every feed of the default synchronizer its buffer holds fewer
\* than 38 bytes, and it is empty when parse found no A8 A8 in a buffer of at
\* least 38 bytes.
C29_DefaultBufferBound ==
    [][(rx_calls' = rx_calls + 1 /\ last_rx'.use_default) =>
        LET held == parser_buffer \o ChunkTaken
        IN  /\ Len(parser_buffer') < 38
            /\ (Len(held) >= 38 /\ Find(held, <<168, 168>>) = -1)
                  => parser_buffer' = <<>>]_vars

\* 38 bytes without A8 A8 were dropped, and later a feed left part of a frame
C29_Witness ==
    /\ rx_count > 38
    /\ Find(Take(sent[1], 38), <<168, 168>>) = -1
    /\ Len(parser_buffer) = 37
    /\ last_rx.use_default

\* the frames a synchronizer emits when the whole stream is one chunk
OneChunkFrames(src) ==
    LET stream == sent[1]
        results == IF src = 0 THEN DataParser_parse(stream).results
                   ELSE parse(GenericProtocolParser(protocol_configs[src]), stream).results
    IN  [k \in 1..Len(results) |-> results[k].raw_frame]

\* C30: a synchronizer started empty emits the same frames however the stream
\* is split into chunks: the frames of the one-chunk feed, for the custom
\* synchronizers and for the default one.
C30_RechunkingInvariance ==
    wire = <<>> =>
        \A src \in {0} \cup DOMAIN protocol_parsers :
            FramesFrom(emitted, src) = OneChunkFrames(src)

(***************************************************************************)
(* A parse() call followed one loop iteration at a time.                   *)
(***************************************************************************)
\* protocol definitions with frame length >= 1: every checksum kind, with and
\* without header and tail, and a length below the header length
LoopProtocols ==
    { ProtocolConfig("L1", <<85>>, SPIN_LENGTH_MIN, <<>>, "none", TRUE),
      ProtocolConfig("L2", <<>>, 2, <<>>, "sum", TRUE),
      ProtocolConfig("L3", <<85>>, 3, <<0>>, "xor", TRUE),
      ProtocolConfig("L4", <<85, 85>>, 3, <<>>, "CRC16-CCITT", TRUE),
      ProtocolConfig("L5", <<85>>, 2, <<>>, "CRC16-MODBUS", TRUE),
      ProtocolConfig("L6", <<>>, 3, <<>>, "CRC16-XMODEM", TRUE),
      ProtocolConfig("L7", <<85, 0>>, SPIN_LENGTH_MIN, <<85>>, "none", TRUE),
      ProtocolConfig("L8", <<0>>, 2, <<>>, "sum", FALSE) }

\* the buffers of the custom parsers hold at most this many bytes
MaxLoopLen == 5

LoopBuffers == UNION { [1..n -> {0, 85}] : n \in 0..MaxLoopLen }

\* buffers of the default parser: garbage, frames, wrong tails, parts of frames
DefaultBuffers ==
    { <<>>, Zeros(FRAME_LENGTH - 1), Zeros(FRAME_LENGTH), Zeros(FRAME_LENGTH + 2),
      DefaultFrame, DefaultFrame \o DefaultFrame \o <<168>>,
      <<0, 168>> \o DefaultFrame, BadTailFrame \o DefaultFrame,
      [i \in 1..(FRAME_LENGTH + 2) |-> 168],
      BadTailFrame \o BadTailFrame \o Take(DefaultFrame, FRAME_LENGTH - 1) }

InitLoop == AppInit(<<>>, <<>>, <<>>)

\* a parse() call begins: src 0 is DataParser, src 1 GenericProtocolParser
\* with definition p; the call is at its first loop test
CallParse ==
    /\ ~parse_run.called
    /\ \/ \E buffer \in DefaultBuffers :
             parse_run' = [called |-> TRUE, src |-> 0, p |-> DefaultProtocol,
                           before |-> ParseState(buffer, <<>>, 0),
                           st |-> ParseState(buffer, <<>>, 0),
                           iterations |-> 0, stopped |-> FALSE, returned |-> FALSE]
       \/ \E config \in LoopProtocols : \E buffer \in LoopBuffers :
             parse_run' = [called |-> TRUE, src |-> 1, p |-> config,
                           before |-> ParseState(buffer, <<>>, 0),
                           st |-> ParseState(buffer, <<>>, 0),
                           iterations |-> 0, stopped |-> FALSE, returned |-> FALSE]
    /\ UNCHANGED <<syncVars, grouperVars, clock, wire, sent, recoveryVars,
                   lifecycleVars, last_extract, consumerVars, last_crc, last_tx,
                   last_append>>

\* the loop test holds and the call has not left the loop
InLoop ==
    /\ parse_run.called
    /\ ~parse_run.returned
    /\ ~parse_run.stopped
    /\ (parse_run.src = 1 => parse_run.p.enabled)
    /\ Len(parse_run.st.buffer) >= parse_run.p.length

\* one pass through the body of the while loop
Iterate ==
    /\ InLoop
    /\ LET pass == IF parse_run.src = 0 THEN DataParser_body(parse_run.st)
                   ELSE GenericParser_body(GenericProtocolParser(parse_run.p),
                                           parse_run.st)
       IN  parse_run' = [parse_run EXCEPT !.before = parse_run.st, !.st = pass.st,
                                          !.iterations = @ + 1, !.stopped = pass.stop]
    /\ UNCHANGED <<syncVars, grouperVars, clock, wire, sent, recoveryVars,
                   lifecycleVars, last_extract, consumerVars, last_crc, last_tx,
                   last_append>>

\* return results: the parser is disabled, the loop test fails, or a break
Return ==
    /\ parse_run.called
    /\ ~parse_run.returned
    /\ ~InLoop
    /\ parse_run' = [parse_run EXCEPT !.returned = TRUE]
    /\ UNCHANGED <<syncVars, grouperVars, clock, wire, sent, recoveryVars,
                   lifecycleVars, last_extract, consumerVars, last_crc, last_tx,
                   last_append>>

NextLoop ==
    \/ CallParse
    \/ Iterate
    \/ Return

SpecLoop == InitLoop /\ [][NextLoop]_vars

\* the interpreter runs the call on: the loop body and the return are taken
SpecLoopLive == SpecLoop /\ WF_vars(Iterate) /\ WF_vars(Return)

\* the buffer of a pass once the bytes before the header are dropped
Aligned(run) ==
    LET h == run.p.header
        i == IF Len(h) > 0 THEN Find(run.before.buffer, h) ELSE 0
    IN  SubSeq(run.before.buffer, i + 1, Len(run.before.buffer))

\* C31: every pass through the loop body of a parse() call on a definition
\* with frame length >= 1 stops the loop or strictly shortens the buffer (by
\* max(1, header length) on a tail or checksum mismatch, by the frame length on
\* an emission), and every call returns.
C31_ParseTerminates ==
    /\ [][(parse_run.called /\ parse_run'.iterations = parse_run.iterations + 1) =>
            \/ parse_run'.stopped
            \/ /\ Len(parse_run'.st.buffer) < Len(parse_run.st.buffer)
               /\ IF Len(parse_run'.st.results) > Len(parse_run.st.results)
                    THEN Len(parse_run'.st.buffer)
                           = Len(Aligned(parse_run')) - parse_run.p.length
                    ELSE Len(parse_run'.st.buffer)
                           = Len(Aligned(parse_run'))
                               - (IF Len(parse_run.p.header) > 1
                                    THEN Len(parse_run.p.header) ELSE 1)]_vars
    /\ (parse_run.called ~> parse_run.returned)

\* a call went through a mismatch and an emission before it returned
C31_Witness ==
    /\ parse_run.called
    /\ parse_run.returned
    /\ parse_run.src = 1
    /\ parse_run.iterations >= 3
    /\ Len(parse_run.st.results) >= 1
    /\ parse_run.p.crc_type = "sum"

\* the stream positions pos are consecutive
Consecutive(pos) == \A k \in 1..(Len(pos) - 1) : pos[k + 1] = pos[k] + 1

\* C32: the frames one synchronizer emits are stretches of the stream it was
\* fed, in stream order and disjoint: each frame lies wholly after the frame
\* the same synchronizer emitted before it.
C32_OrderedDisjoint ==
    \A j \in DOMAIN emitted :
        /\ emitted[j].pos # <<>>
        /\ Consecutive(emitted[j].pos)
        /\ \A k \in DOMAIN emitted[j].pos :
               emitted[j].frame[k] = sent[1][emitted[j].pos[k] + 1]
        /\ \A i \in 1..(j - 1) :
               emitted[i].src = emitted[j].src
                 => emitted[i].pos[Len(emitted[i].pos)] < emitted[j].pos[1]

\* a synchronizer emitted three frames in two or more feeds
C32_Witness ==
    /\ rx_calls >= 2
    /\ \E src \in 0..1 : Len(FramesFrom(emitted, src)) >= 3
    /\ Len(last_rx.custom_results) = 1
    /\ Len(last_rx.custom_results[1]) >= 1

(***************************************************************************)
(* The periodic senders: ticks and clicks while the port opens, closes,    *)
(* is lost and recovered.                                                  *)
(***************************************************************************)

\* the probe ticks looked at here: every tenth tick of the 100 ms timer
SenderTick ==
    \E port_exists, open_ok \in BOOLEAN :
        /\ clock + 10 * RECOVERY_TICK_MS <= SessionMaxClock
        /\ check_port_recovery(clock + 10 * RECOVERY_TICK_MS, port_exists, open_ok)

NextSender ==
    \/ ReadError
    \/ ConnectionLost
    \/ SenderTick
    \/ ToggleSerial
    \/ SendPreset
    \/ ClickPreset

SpecSender == InitSession /\ [][NextSender]_vars

\* C35: a tick of a periodic sender with the port absent writes nothing and
\* stops that sender's timer, a tick whose write fails stops that sender's
\* timer, and no tick touches the timer of another sender; a command goes out
\* only with the port open.
C35_SenderStopsOnClosedPort ==
    [][\A index \in DOMAIN preset_timers : \A write_ok \in BOOLEAN :
          send_preset_command(index, write_ok) =>
              /\ serial_port = Null =>
                     /\ last_tx'.written = <<>>
                     /\ preset_timers'[index] = None
              /\ serial_port # Null /\ ~write_ok => preset_timers'[index] = None
              /\ last_tx'.written # <<>> => serial_port # Null /\ write_ok
              /\ \A other \in DOMAIN preset_timers \ {index} :
                     preset_timers'[other] = preset_timers[other]]_vars

\* the device went away under a running periodic sender: its write failed
\* and its timer is stopped; later, with the port absent, the handler fired
\* again and nothing went out
C35_Witness ==
    /\ last_tx.called
    /\ "sender" \in DOMAIN last_tx
    /\ ~last_tx.open
    /\ last_tx.written = <<>>
    /\ serial_port = Null
    /\ InitialPresets[last_tx.sender].periodic
    /\ preset_timers[last_tx.sender] = None

(***************************************************************************)
(* Stabilization and the 10 s window.                                      *)
(***************************************************************************)
\* C33: a probe tick that finds the device absent after it was seen clears the
\* stabilization start time and leaves the recovery start time alone; the tick
\* that sees it again starts a fresh stabilization; so no reconnect is made for
\* a device whose stabilization began less than 1 s before the 10 s deadline,
\* and the tick past the deadline ends recovery with no port opened.
C33_StabilizationReset ==
    [][probe' # probe =>
        /\ (probe'.observed /\ ~probe'.port_exists /\ last_port_state)
              => /\ port_stable_time' = None
                 /\ last_port_state' = FALSE
                 /\ recovery_start_time' = recovery_start_time
                 /\ recovery_check_timer' = recovery_check_timer
        /\ (probe'.observed /\ probe'.port_exists /\ ~last_port_state)
              => /\ port_stable_time' = probe'.time
                 /\ recovery_start_time' = recovery_start_time
        /\ probe'.recovered
              => /\ probe'.time - port_stable_time >= 1000
                 /\ port_stable_time - recovery_start_time <= 9000
        /\ (probe'.timed_out /\ recovery_start_time # None)
              => /\ recovery_check_timer' = Null
                 /\ recovery_start_time' = None
                 /\ port_stable_time' = None
                 /\ btn_connect' # BTN_DETECTING
                 /\ serial_port' = serial_port
                 /\ attempts' = attempts]_vars

\* the device was seen, went away, came back less than 1 s before the
\* deadline, and recovery ended without an attempt to reconnect
C33_Witness ==
    /\ probe.timed_out
    /\ probe.flapped
    /\ probe.port_exists
    /\ probe.since # None
    /\ probe.time - probe.since < 1000
    /\ attempts = 0
    /\ serial_port = Null
    /\ recovery_check_timer = Null

\* a probe tick called recover_connection and the port could not be reopened
ReconnectFailed == probe' # probe /\ probe'.recovered /\ btn_connect' = BTN_OPEN

\* C34: after recover_connection fails to reopen the port, no byte source is
\* open, no reader thread runs, no periodic sender was restarted, the probe
\* timer is stopped and the snapshot is cleared.
C34_ReconnectFailureIdle ==
    [][ReconnectFailed =>
        /\ serial_port' = Null
        /\ open_ports' = {}
        /\ serial_thread' = Null
        /\ readers' = {}
        /\ preset_timers' = AllStopped
        /\ recovery_check_timer' = Null
        /\ recovery_start_time' = None
        /\ lost_port_info' = Null
        /\ lost_port_config' = <<>>]_vars

(***************************************************************************)
(* Timing and framing: one sequence of chunks arrives with every choice of *)
(* gaps, watchdog ticks, frame intervals, closes, losses and reopenings.   *)
(***************************************************************************)
\* the registry: definition S
TimingConfigs == get_data("S", <<85>>, 4, <<>>, "sum", TRUE)

\* the bytes the device sends: a frame of S, a frame of the default protocol,
\* a frame of S
TimingStream == SumFrame \o DefaultFrame \o SumFrame

\* the sizes of the reads the reader thread hands over, one sequence per run
TimingCuts ==
    { <<Len(TimingStream)>>,
      <<Len(SumFrame), FRAME_LENGTH, Len(SumFrame)>>,
      <<2, 20, 22, 2>>,
      <<1, 3, 40, 2>> }

\* stream cut into chunks of the sizes cuts
RECURSIVE Chunks(_, _)
Chunks(stream, cuts) ==
    IF cuts = <<>> THEN <<>>
    ELSE <<Take(stream, Head(cuts))>> \o Chunks(Drop(stream, Head(cuts)), Tail(cuts))

\* the gaps between two handlers of a run
TimingGaps == {0, WATCHDOG_MS, FRAME_INTERVAL_DEFAULT}

\* the clock of these runs stops here
TimingMaxClock == 200

InitTiming ==
    \E cuts \in TimingCuts :
        AppInit(TimingConfigs, TimingStream, Chunks(TimingStream, cuts))

\* the reader thread hands over the next chunk of the run
ReceivePlanned ==
    \E dt \in TimingGaps :
        /\ clock + dt <= TimingMaxClock
        /\ rx_calls < Len(sent)
        /\ Receive(Len(sent[rx_calls + 1]), dt)

TimingTick ==
    \E dt \in {WATCHDOG_MS} :
        /\ clock + dt <= TimingMaxClock
        /\ flush_rx_buffer(clock + dt)

NextTiming ==
    \/ ReceivePlanned
    \/ TimingTick
    \/ ChangeInterval
    \/ ToggleSerial
    \/ ReadError
    \/ ConnectionLost

SpecTiming == InitTiming /\ [][NextTiming]_vars

\* The synchronizers after the first n chunks, computed from the chunks alone:
\* the default parser's buffer, each generic parser's buffer, and the frames
\* each has emitted (index 0 is the default parser).
RECURSIVE TimingFree(_, _)
TimingFree(chunks, n) ==
    IF n = 0
    THEN [parser_buffer |-> <<>>,
          buffers |-> [i \in DOMAIN protocol_parsers |-> <<>>],
          frames |-> [i \in 0..Len(protocol_parsers) |-> <<>>]]
    ELSE LET before == TimingFree(chunks, n - 1)
             dst == DataParser_parse(DataParser_add_data(before.parser_buffer, chunks[n]))
             st  == [i \in DOMAIN protocol_parsers |->
                        parse(protocol_parsers[i],
                              add_data(before.buffers[i], chunks[n]))]
             use_default == use_default_parser(protocol_configs)
         IN  [parser_buffer |-> IF use_default THEN dst.buffer ELSE before.parser_buffer,
              buffers |-> [i \in DOMAIN protocol_parsers |-> st[i].buffer],
              frames |-> [i \in 0..Len(protocol_parsers) |->
                  before.frames[i] \o
                  (IF i = 0
                   THEN (IF use_default
                         THEN [k \in DOMAIN dst.results |-> dst.results[k].raw_frame]
                         ELSE <<>>)
                   ELSE [k \in DOMAIN st[i].results |-> st[i].results[k].raw_frame])]]

\* C37: whatever the arrival times, the frame interval, the watchdog ticks and
\* the closes and reopenings in between, after the same chunks every
\* synchronizer holds the same buffer and has emitted the same frames: both are
\* a function of the chunks received so far.
C37_TimingFreeFraming ==
    LET ref == TimingFree(sent, rx_calls)
    IN  /\ parser_buffer = ref.parser_buffer
        /\ \A i \in DOMAIN protocol_parsers :
               /\ protocol_parsers[i].buffer = ref.buffers[i]
               /\ FramesFrom(emitted, i) = ref.frames[i]
        /\ FramesFrom(emitted, 0) = ref.frames[0]

\* all chunks of the four-chunk run are in, some of them grouped into one
\* display unit and some shown on their own, and both synchronizers emitted
C37_Witness ==
    /\ Len(sent) = 4
    /\ rx_calls = 4
    /\ Len(display) >= 2
    /\ \E u \in DOMAIN display : Len(display[u]) > Len(sent[3])
    /\ FramesFrom(emitted, 0) = <<DefaultFrame>>
    /\ FramesFrom(emitted, 1) = <<SumFrame, SumFrame>>

\* C38: the logical units shown so far followed by the accumulation buffer are
\* the received chunks in arrival order, and no unit is empty.
C38_GrouperConservation ==
    /\ ConcatAll(display, 1) \o rx_buffer = ConcatAll(SubSeq(sent, 1, rx_calls), 1)
    /\ \A u \in DOMAIN display : display[u] # <<>>

\* after a connection loss and a reopening by hand three units have been shown
\* and bytes are waiting in the buffer
C38_Witness ==
    /\ Len(display) >= 3
    /\ rx_buffer # <<>>
    /\ rx_calls >= 3
    /\ serial_port # Null
    /\ attempts = 0
    /\ lost_port_info # Null

(***************************************************************************)
(* The checksum the sender appends, read back by a parser of the same      *)
(* kind.                                                                   *)
(***************************************************************************)
\* SerialMonitorApp.add_crc_to_data; the kinds are the entries of combo_send_crc
\* and of the preset dialog's combo_crc ("none", "sum" and "xor" stand for the
\* three Chinese entries, as in the protocol dialog)
add_crc_to_data(data, crc_type) ==
    IF crc_type = "none" THEN data
    ELSE IF crc_type = "CCITT-CRC16"
      THEN data \o <<(calculate_ccitt_crc16(data) \div 256) % 256,
                     calculate_ccitt_crc16(data) % 256>>
    ELSE IF crc_type = "Modbus-CRC16"
      THEN data \o <<calculate_modbus_crc16(data) % 256,
                     (calculate_modbus_crc16(data) \div 256) % 256>>
    ELSE IF crc_type = "CRC16-XMODEM"
      THEN data \o <<calculate_crc16_xmodem(data) % 256,
                     (calculate_crc16_xmodem(data) \div 256) % 256>>
    ELSE IF crc_type = "sum" THEN Append(data, calculate_sum_check(data))
    ELSE IF crc_type = "xor" THEN Append(data, calculate_xor_check(data))
    ELSE data

\* the checksum kinds of the sender's combo boxes
SendKinds == {"CCITT-CRC16", "Modbus-CRC16", "CRC16-XMODEM", "sum", "xor"}

\* the entry of the protocol dialog's combo_crc that names the same algorithm
ParserKind(crc_type) ==
    IF crc_type = "CCITT-CRC16" THEN "CRC16-CCITT"
    ELSE IF crc_type = "Modbus-CRC16" THEN "CRC16-MODBUS"
    ELSE crc_type

\* the payloads are at most this long
MaxPayloadLen == 2

\* payloads over 00, 01, 55, 80, FF, the empty one included (a HEX command of
\* blanks only), and the check string
SendPayloads ==
    UNION { [1..n -> {0, 1, 85, 128, 255}] : n \in 0..MaxPayloadLen } \cup {CheckString}

InitAppend == AppInit(<<>>, <<>>, <<>>)

\* add_crc_to_data called by a send handler
AppendCrc ==
    /\ ~last_append.called
    /\ \E data \in SendPayloads : \E crc_type \in SendKinds :
        /\ last_append' = [called |-> TRUE, data |-> data, crc_type |-> crc_type,
                           result |-> add_crc_to_data(data, crc_type)]
        /\ UNCHANGED <<syncVars, grouperVars, clock, wire, sent, recoveryVars,
                       lifecycleVars, last_extract, consumerVars, last_crc, last_tx,
                       parse_run>>

NextAppend == AppendCrc

SpecAppend == InitAppend /\ [][NextAppend]_vars

\* a parser whose definition has the checksum kind that matches crc_type and
\* the length of frame
VerifierOf(crc_type, frame) ==
    GenericProtocolParser(ProtocolConfig("V", <<>>, Len(frame), <<>>,
                                         ParserKind(crc_type), TRUE))

\* frame with the byte at position i replaced by b
WithByte(frame, i, b) == [frame EXCEPT ![i] = b]

\* every single-byte change of frame is rejected
SingleByteChangesFail(crc_type, frame) ==
    \A i \in DOMAIN frame : \A b \in 0..255 :
        b # frame[i] => ~verify_crc(VerifierOf(crc_type, frame), WithByte(frame, i, b))

\* C39: what add_crc_to_data returns for a payload and a kind is accepted by
\* _verify_crc of a parser of the same kind, and every single-byte change of a
\* sum or xor frame is rejected.
C39_AppendVerifyRoundTrip ==
    last_append.called =>
        /\ verify_crc(VerifierOf(last_append.crc_type, last_append.result),
                      last_append.result)
        /\ last_append.crc_type \in {"sum", "xor"} =>
               SingleByteChangesFail(last_append.crc_type, last_append.result)

====
